---- MODULE Spec2Model ----
(***************************************************************************)
(* qb-port-sync: the port acquisition and synchronisation engine.          *)
(*                                                                         *)
(* One engine instance is modelled from the point where `run` has logged   *)
(* in and resolved its strategy plan (src/main.rs:228): either one         *)
(* single-shot run (run_once) or one daemon (run_file_daemon with its      *)
(* spawned watcher task, or run_portmap_daemon).                           *)
(*                                                                         *)
(* The watcher task records what it handed to its callback in `emitted`.    *)
(* parse_port and resolve_plan are functions of their arguments; each is   *)
(* examined on its own (ParseSpec, ResolveSpec) through `call` and `ret`.  *)
(*                                                                         *)
(* Durations are in milliseconds: std::time::Duration halves exactly       *)
(* (21 s / 2 = 10.5 s), so whole seconds would lose the half second.       *)
(* An Option<T> is a sequence of length 0 (None) or 1 (Some).              *)
(***************************************************************************)
EXTENDS Integers, Sequences, FiniteSets, TLC

\* ------------------------------------------------------------------ bounds

\* Gateway lifetimes range over 0..MaxLease seconds (0, below 20, odd, above 20).
MaxLease == 23
\* The environment rewrites the forwarded-port file at most MaxWrites times.
MaxWrites == 3
\* At most MaxEvents filesystem notifications wait in the watcher's queue.
MaxEvents == 2

\* File contents given to parse_port hold at most MaxDigits digits.
MaxDigits == 5
MaxApplies == 2
MaxReads == 3
MaxChanges == 17

\* ------------------------------------------------------------------ values

None == << >>
Some(x) == << x >>
IsSome(o) == Len(o) = 1
Unwrap(o) == o[1]

Max(a, b) == IF a >= b THEN a ELSE b

\* Sample port numbers (u16) the gateway or the VPN client hands out.
Ports == {51413, 51820}
\* Listen ports the torrent client can report: the sample ports and its default.
ClientPorts == Ports \cup {6881}
\* refresh_secs values of the configuration (u64, unvalidated, default 300).
RefreshChoices == {0, 7, 300}
Leases == 0..MaxLease

PortmapModes == {"Auto", "PcpOnly", "NatOnly"}
Plans == {"File"} \cup PortmapModes

\* Capacity of the channel between the watcher callback and the apply loop.
ChannelCapacity == 16
\* Floor of the lease-derived refresh delay, in seconds.
MinLeaseDelaySecs == 10

VARIABLES
    once,          \* cli.once
    plan,          \* the resolved StrategyPlan: "File" or a PortmapMode
    refresh,       \* config.portmap.refresh_secs
    pc,            \* where the engine task is
    cancel,        \* the cancellation signal (ctrl_c) has been delivered
    health,        \* health_flag
    listenPort,    \* the torrent client's listen port
    calls,         \* protocol attempts of the current cycle, in call order
    pcpRes,        \* outcome of this cycle's PCP attempt: "none", "ok", "err"
    natRes,        \* outcome of this cycle's NAT-PMP attempt
    pcpErr,        \* Option<error>: the PCP error held by the fallback's Err arm
    lifetime,      \* the lifetime (seconds) the gateway returned this cycle, as Option
    map,           \* Option<MapResult> of the current cycle
    applyPort,     \* Option<u16>: the port handed to the apply call in flight / last made
    cycle,         \* result of the last finished cycle: "none", "ok", "err"
    cycleErr,      \* Option<error> of the last finished cycle
    update,        \* Option<PortUpdateResult> of the last apply call
    nextDelay,     \* next_delay of run_portmap_daemon, in ms
    timerFired,    \* time::sleep(next_delay) has elapsed
    negInFlight,   \* number of negotiation calls in flight
    applyInFlight, \* number of set_listen_port calls in flight
    chan,          \* mpsc::channel::<u16>(16) between watcher callback and apply loop
    wpc,           \* where the watcher task is
    lastPort,      \* the watcher's last_port
    file,          \* content of the forwarded-port file
    events,        \* filesystem notifications queued for the watcher
    writes,        \* number of times the environment has rewritten the file
    watch,         \* what the watcher's watch is registered on: "none", "file", "dir", "lost"
    emitted,       \* history: the ports the watcher has handed to its callback, in order
    call,          \* Option: a call of a pure function (parse_port, resolve_plan) and its arguments
    ret,           \* Option: what that call returned
    json,          \* cli.json
    steps,         \* history: the steps `run` has taken before it starts the engine
    runResult,     \* Option: what `run` returned to `main`
    exited         \* Option: the exit code of the process and the JSON lines it printed

engineVars == << once, plan, refresh, pc, cancel, health, listenPort, calls, pcpRes,
                 natRes, pcpErr, lifetime, map, applyPort, cycle, cycleErr, update, nextDelay,
                 timerFired, negInFlight, applyInFlight >>
watchVars == << chan, wpc, lastPort, file, events, writes, watch, emitted >>
pureVars == << call, ret >>
runVars == << json, steps, runResult, exited >>
vars == << once, plan, refresh, pc, cancel, health, listenPort, calls, pcpRes,
           natRes, pcpErr, lifetime, map, applyPort, cycle, cycleErr, update, nextDelay,
           timerFired, negInFlight, applyInFlight, chan, wpc, lastPort, file, events,
           writes, watch, emitted, call, ret, json, steps, runResult, exited >>

\* ------------------------------------------------------------------ negotiation

\* src/portmap/natpmp.rs:57-58 and src/portmap/pcp.rs:73-78: a gateway lifetime of 0
\* is an absent lease, otherwise the lifetime in whole seconds.
TtlOf(L) == IF L = 0 THEN None ELSE Some(L * 1000)

\* src/portmap/mod.rs:164-174
build_result(external_port, ttl, strategy) ==
    [external_port |-> external_port, ttl |-> ttl, strategy |-> strategy]

\* The strategy tag of a mapping obtained through PCP (pcp::map is called at
\* src/portmap/mod.rs:94; the tag is PortMapping.protocolUsed = PCP of the data model).
PcpStrategy == "Pcp"

\* Errors carry their type (what downcast_ref finds) and the set of underlying
\* failure messages their text contains.
Error(kind, msgs) == [kind |-> kind, msgs |-> msgs]

\* config::PortProtocol, the configured protocol of a mapping request.
PortProtocols == {"TCP", "UDP", "BOTH"}

\* src/portmap/mod.rs:83-89
protocol_from_config(protocol) ==
    CASE protocol = "TCP" -> "Tcp"
      [] protocol = "UDP" -> "Udp"
      [] protocol = "BOTH" -> "Both"

\* src/portmap/mod.rs:153-158
effective_protocol(protocol) == IF protocol = "Both" THEN "Tcp" ELSE protocol

\* src/portmap/mod.rs:160-162
mapping_protocol(protocol) == effective_protocol(protocol)

\* natpmp::map, `let nat_protocol = match protocol` (src/portmap/natpmp.rs:26-29):
\* the protocol of the request put on the wire.
nat_protocol(protocol) == IF protocol \in {"Tcp", "Both"} THEN "tcp" ELSE "udp"

\* src/portmap/pcp.rs:60-65: the protocol of the PCP request put on the wire.
select_protocol(protocol) == IF protocol = "UDP" THEN "udp" ELSE "tcp"

\* src/portmap/pcp.rs:67-71: the number of warnings the call logs.
warn_if_protocol_mismatch(protocol) == IF protocol = "BOTH" THEN 1 ELSE 0

\* A u64 is written as its four 16-bit limbs, most significant first, and a u32 as
\* its two; the limbs are drawn from a sample.
LimbSamples == {0, 300, 65535}
U64s == { << a, b, c, d >> : a \in LimbSamples, b \in LimbSamples, c \in LimbSamples,
                              d \in LimbSamples }

\* `x as u32` on a u64: the low 32 bits.
as_u32(x) == << x[3], x[4] >>

\* u64::from on a u32.
u64_from_u32(y) == << 0, 0, y[1], y[2] >>

\* natpmp::map, the lifetime it asks for: `request.refresh_secs as u32`
\* (src/portmap/natpmp.rs:10), passed on unchanged (line 30).
requested_lifetime(refresh_secs) == as_u32(refresh_secs)

\* What the gateway answers to a PCP request: a mapping, the result code
\* UNSUPP_VERSION, another error result code, or nothing before the timeout.
PcpResponses ==
    { [kind |-> "mapping", port |-> p, lifetime |-> L] : p \in Ports, L \in Leases }
    \cup { [kind |-> k] : k \in {"unsupported_version", "refused", "timeout"} }

\* What the gateway answers to a NAT-PMP request; "unreachable" is a gateway the
\* client cannot be created for (IPv6 address, socket error): nothing is sent.
NatpmpResponses ==
    { [kind |-> "mapping", port |-> p, lifetime |-> L] : p \in Ports, L \in Leases }
    \cup { [kind |-> k] : k \in {"refused", "unreachable"} }

\* One PCP attempt: its result, the protocols of the requests it put on the wire
\* and the number of warnings it logged. try_pcp (src/portmap/mod.rs:91-105)
\* fails with PcpNotSupported in a build without the pcp feature and calls the
\* negotiator otherwise; the negotiator is try_map (src/portmap/pcp.rs:17-43):
\* no local client address is an untyped error before anything is sent, every
\* error of the request is PortMapError::Pcp(err.to_string()), and
\* warn_if_protocol_mismatch is called after the `?` of the request.
try_pcp(feature, protocol, clientAddr, response) ==
    IF ~feature
    THEN [result |-> [ok |-> FALSE, err |-> Error("PcpNotSupported", {"pcp"})],
          wire |-> << >>, warnings |-> 0]
    ELSE IF ~clientAddr
    THEN [result |-> [ok |-> FALSE, err |-> Error("Other", {"pcp"})],
          wire |-> << >>, warnings |-> 0]
    ELSE IF response.kind # "mapping"
    THEN [result |-> [ok |-> FALSE, err |-> Error("Pcp", {"pcp"})],
          wire |-> << select_protocol(protocol) >>, warnings |-> 0]
    ELSE [result |-> [ok |-> TRUE, lifetime |-> response.lifetime,
                      result |-> build_result(response.port, TtlOf(response.lifetime),
                                              PcpStrategy)],
          wire |-> << select_protocol(protocol) >>,
          warnings |-> warn_if_protocol_mismatch(protocol)]

\* One NAT-PMP attempt, natpmp::map (src/portmap/natpmp.rs:6-61): every error is
\* PortMapError::NatPmp; no warning is logged on any path.
natpmp_map(protocol, response) ==
    LET wireProtocol == nat_protocol(mapping_protocol(protocol_from_config(protocol))) IN
    IF response.kind = "unreachable"
    THEN [result |-> [ok |-> FALSE, err |-> Error("NatPmp", {"natpmp"})],
          wire |-> << >>, warnings |-> 0]
    ELSE IF response.kind # "mapping"
    THEN [result |-> [ok |-> FALSE, err |-> Error("NatPmp", {"natpmp"})],
          wire |-> << wireProtocol >>, warnings |-> 0]
    ELSE [result |-> [ok |-> TRUE, lifetime |-> response.lifetime,
                      result |-> build_result(response.port, TtlOf(response.lifetime),
                                              "NatPmp")],
          wire |-> << wireProtocol >>, warnings |-> 0]

\* try_pcp: a mapping, or PcpNotSupported, Pcp(msg), or an untyped error
\* (no local client address, internal port 0).
PcpOutcomes ==
    { try_pcp(f, q, a, r).result :
        f \in BOOLEAN, q \in PortProtocols, a \in BOOLEAN, r \in PcpResponses }

\* natpmp::map: a mapping tagged NatPmp, or PortMapError::NatPmp(msg).
NatpmpOutcomes ==
    { natpmp_map(q, r).result : q \in PortProtocols, r \in NatpmpResponses }

\* map_prefer_pcp_fallback_natpmp, the Err arm: every PCP error is logged and
\* followed by the NAT-PMP attempt.
FallsBackOnlyWhenUnsupported(err) == err.kind = "PcpNotSupported"
FallsBackToNatpmp(err) == err.kind \in {"PcpNotSupported", "Pcp", "Other"}

\* What resolve_gateway is given: the configured gateway (absent or blank, an IP
\* address, or text that is no IP address), the autodiscover_gateway flag, and
\* whether the operating system reports a default gateway.
GatewayConfigs == {"none", "address", "invalid"}

\* resolve_gateway (src/portmap/mod.rs:135-151). Its errors are anyhow errors of
\* no declared type: kind "Gateway" stands for them, with the message.
resolve_gateway(configured, autodiscover, discovered) ==
    IF configured # "none"
    THEN IF configured = "address"
         THEN [ok |-> TRUE]
         ELSE [ok |-> FALSE, err |-> Error("Gateway", {"invalid configured gateway address"})]
    ELSE IF autodiscover
         THEN IF discovered
              THEN [ok |-> TRUE]
              ELSE [ok |-> FALSE,
                    err |-> Error("Gateway", {"failed to autodiscover default gateway"})]
         ELSE [ok |-> FALSE,
               err |-> Error("Gateway", {"gateway discovery disabled and no gateway configured"})]

\* Values of portmap.internal_port (u16, 0 by default: "pick one for me").
InternalPorts == {0, 1, 6881, 49152, 65535}

\* What `rng.gen_range(49152..=65535)` can draw: the ends of the range and a port
\* inside it.
EphemeralLow == 49152
EphemeralHigh == 65535
EphemeralDraws == {EphemeralLow, 51413, EphemeralHigh}

\* resolve_ports (src/portmap/mod.rs:125-133): the internal port and the external
\* preference of a request; drawn is what the random generator yields if asked.
resolve_ports_keeps_zero(internal_port, drawn) ==
    [internal_port |-> internal_port,
     external_preference |-> IF internal_port = 0 THEN None ELSE Some(internal_port)]
resolve_ports(internal_port, drawn) ==
    IF internal_port = 0
    THEN [internal_port |-> drawn, external_preference |-> None]
    ELSE [internal_port |-> internal_port, external_preference |-> Some(internal_port)]

\* build_request (src/portmap/mod.rs:111-123): the request of a cycle, or the error
\* of resolve_gateway.
build_request(protocol, configured, autodiscover, discovered, internal_port, drawn, refresh_secs) ==
    LET gateway == resolve_gateway(configured, autodiscover, discovered)
        ports == resolve_ports(internal_port, drawn)
    IN  IF gateway.ok
        THEN [ok |-> TRUE,
              request |-> [protocol |-> protocol_from_config(protocol),
                           internal_port |-> ports.internal_port,
                           external_preference |-> ports.external_preference,
                           refresh_secs |-> refresh_secs]]
        ELSE [ok |-> FALSE, err |-> gateway.err]

\* Which entry point a mode takes (src/main.rs:484-488): Auto runs
\* map_prefer_pcp_fallback_natpmp, whose Err arm goes on to NAT-PMP; PcpOnly runs
\* map_with_pcp and NatOnly map_with_natpmp, which make their one attempt and
\* return its result (src/portmap/mod.rs:73-81).
HasFallbackAlways(mode) == TRUE
HasFallback(mode) == mode = "Auto"

\* map_prefer_pcp_fallback_natpmp, `try_natpmp(&request).await?`: the NAT-PMP error
\* is returned as it is; the PCP error was only logged.
FallbackError(pcpError, natError) == natError

\* src/main.rs:526-535
map_strategy_label(mode, result_strategy) ==
    CASE mode = "PcpOnly" -> "pcp"
      [] mode = "NatOnly" -> "natpmp"
      [] mode = "Auto" -> IF result_strategy = "Pcp" THEN "pcp" ELSE "natpmp"

\* src/main.rs:518-521: max(ttl / 2, 10 s) when a lease came back, else refresh_secs.
LeaseDelaySecondsHalved(ttl, refresh_secs) ==
    IF IsSome(ttl)
    THEN Max(((Unwrap(ttl) \div 1000) \div 2) * 1000, MinLeaseDelaySecs * 1000)
    ELSE refresh_secs * 1000
LeaseDelayNoFloor(ttl, refresh_secs) ==
    IF IsSome(ttl) THEN Unwrap(ttl) \div 2 ELSE refresh_secs * 1000
LeaseDelay(ttl, refresh_secs) ==
    IF IsSome(ttl)
    THEN Max(Unwrap(ttl) \div 2, MinLeaseDelaySecs * 1000)
    ELSE refresh_secs * 1000

\* ------------------------------------------------------------------ the client

\* How the client answers the requests of one set_listen_port call. The list of
\* network interfaces: the request fails, or the list has or lacks the configured
\* interface. The set-preferences request: it does not get through, it is
\* answered with an error status, its answer is lost after the client took the
\* port, or it succeeds and the client takes the port or keeps its own
\* (client-side policy). The get-preferences request: it fails, its answer has
\* no listen_port, or it reports the port in effect.
InterfaceAnswers == {"fail", "found", "missing"}
PostAnswers == {"unsent", "status", "lost", "taken", "kept"}
GetAnswers == {"fail", "malformed", "ok"}

\* A request as the log of a call records it.
Request(endpoint, payload) == [endpoint |-> endpoint, payload |-> payload]

\* QbitClient::set_listen_port(port, bind_interface) (src/qbit.rs:83-130) against a
\* client whose listen port is cur: the outcome (the result or the error, and the
\* client's listen port afterwards) and the requests the call sent, in order.
\* resolve_interface swallows a failed list request (src/qbit.rs:166-173); the
\* payload always has listen_port, random_port = false and upnp = false;
\* post_preferences and get_preferences each send one request and return its
\* failure through `?`.
set_listen_port_retries(port, cur, bind, interfaces, post, get) ==
    LET lookup == IF bind THEN << Request("networkInterfaceList", << >>) >> ELSE << >>
        payload == [listen_port |-> port, random_port |-> FALSE, upnp |-> FALSE,
                    network_interface |-> bind /\ interfaces = "found"]
        set == Request("setPreferences", payload)
        now == IF post \in {"taken", "lost"} THEN port ELSE cur
    IN  IF post \in {"unsent", "status", "lost"}
        THEN [outcome |-> [ok |-> FALSE, listen |-> now, err |-> Error("Qbit", {"apply"})],
              requests |-> lookup \o << set, set >>]
        ELSE IF get # "ok"
        THEN [outcome |-> [ok |-> FALSE, listen |-> now, err |-> Error("Qbit", {"apply"})],
              requests |-> lookup \o << set, Request("preferences", << >>) >>]
        ELSE [outcome |-> [ok |-> TRUE, listen |-> now,
                           result |-> [detected_port |-> now, verified |-> (now = port)]],
              requests |-> lookup \o << set, Request("preferences", << >>) >>]
set_listen_port_verifies_change(port, cur, bind, interfaces, post, get) ==
    LET lookup == IF bind THEN << Request("networkInterfaceList", << >>) >> ELSE << >>
        payload == [listen_port |-> port, random_port |-> FALSE, upnp |-> FALSE,
                    network_interface |-> bind /\ interfaces = "found"]
        set == Request("setPreferences", payload)
        now == IF post \in {"taken", "lost"} THEN port ELSE cur
    IN  IF post \in {"unsent", "status", "lost"}
        THEN [outcome |-> [ok |-> FALSE, listen |-> now, err |-> Error("Qbit", {"apply"})],
              requests |-> lookup \o << set >>]
        ELSE IF get # "ok"
        THEN [outcome |-> [ok |-> FALSE, listen |-> now, err |-> Error("Qbit", {"apply"})],
              requests |-> lookup \o << set, Request("preferences", << >>) >>]
        ELSE [outcome |-> [ok |-> TRUE, listen |-> now,
                           result |-> [detected_port |-> now,
                                       verified |-> (now = port /\ cur # port)]],
              requests |-> lookup \o << set, Request("preferences", << >>) >>]
set_listen_port(port, cur, bind, interfaces, post, get) ==
    LET lookup == IF bind THEN << Request("networkInterfaceList", << >>) >> ELSE << >>
        payload == [listen_port |-> port, random_port |-> FALSE, upnp |-> FALSE,
                    network_interface |-> bind /\ interfaces = "found"]
        set == Request("setPreferences", payload)
        now == IF post \in {"taken", "lost"} THEN port ELSE cur
    IN  IF post \in {"unsent", "status", "lost"}
        THEN [outcome |-> [ok |-> FALSE, listen |-> now, err |-> Error("Qbit", {"apply"})],
              requests |-> lookup \o << set >>]
        ELSE IF get # "ok"
        THEN [outcome |-> [ok |-> FALSE, listen |-> now, err |-> Error("Qbit", {"apply"})],
              requests |-> lookup \o << set, Request("preferences", << >>) >>]
        ELSE [outcome |-> [ok |-> TRUE, listen |-> now,
                           result |-> [detected_port |-> now, verified |-> (now = port)]],
              requests |-> lookup \o << set, Request("preferences", << >>) >>]

\* What one apply call can come to: the outcomes of set_listen_port over the
\* answers of the client.
ApplyOutcomesOf(port, cur) ==
    { set_listen_port(port, cur, b, i, po, g).outcome :
        b \in BOOLEAN, i \in InterfaceAnswers, po \in PostAnswers, g \in GetAnswers }

\* The same, tabulated over the sample ports so that it is computed once.
ApplyOutcomesTable == [port \in Ports, cur \in ClientPorts |-> ApplyOutcomesOf(port, cur)]
ApplyOutcomes(port, cur) ==
    IF port \in Ports /\ cur \in ClientPorts
    THEN ApplyOutcomesTable[port, cur]
    ELSE ApplyOutcomesOf(port, cur)


\* ------------------------------------------------------------------ parse_port

\* Strings are sequences of characters. What str::trim takes for whitespace, in
\* the sample alphabet.
Whitespace == {" ", "\n"}

IsDigit(c) == c \in {"0", "1", "2", "3", "4", "5", "6", "7", "8", "9"}

\* char::to_digit(10) on a decimal digit.
DigitValue(c) ==
    CASE c = "0" -> 0 [] c = "1" -> 1 [] c = "2" -> 2 [] c = "3" -> 3 [] c = "4" -> 4
      [] c = "5" -> 5 [] c = "6" -> 6 [] c = "7" -> 7 [] c = "8" -> 8 [] c = "9" -> 9

\* u16::MAX, the largest value `let port: u16` can take.
U16Max == 65535

RECURSIVE TrimStart(_)
TrimStart(s) ==
    IF s # << >> /\ Head(s) \in Whitespace THEN TrimStart(Tail(s)) ELSE s

RECURSIVE TrimEnd(_)
TrimEnd(s) ==
    IF s # << >> /\ s[Len(s)] \in Whitespace
    THEN TrimEnd(SubSeq(s, 1, Len(s) - 1))
    ELSE s

\* str::trim (src/watch.rs:124)
trim(s) == TrimEnd(TrimStart(s))

\* The digit loop of str::parse::<u16>: a character that is no decimal digit is
\* an error (InvalidDigit), and so is a value beyond u16::MAX (PosOverflow).
RECURSIVE ParseDigits(_, _)
ParseDigits(s, acc) ==
    IF s = << >> THEN Some(acc)
    ELSE IF ~IsDigit(Head(s)) THEN None
    ELSE LET n == acc * 10 + DigitValue(Head(s)) IN
         IF n > U16Max THEN None ELSE ParseDigits(Tail(s), n)

\* str::parse::<u16> (src/watch.rs:125-127): the empty string and a lone sign are
\* errors; one leading "+" is skipped; "-" is no digit of an unsigned type.
u16_from_str(s) ==
    IF s = << >> THEN None
    ELSE IF s = << "+" >> \/ s = << "-" >> THEN None
    ELSE ParseDigits(IF Head(s) = "+" THEN Tail(s) ELSE s, 0)

\* parse_port (src/watch.rs:123-129): Ok(port) is Some(port), Err is None.
parse_port_untrimmed(contents) == u16_from_str(contents)
parse_port(contents) == u16_from_str(trim(contents))

\* File contents: optional whitespace, an optional sign, up to MaxDigits digits,
\* optional trailing junk, optional whitespace.
DigitStrings(n) == UNION { [1..k -> {"0", "3", "5", "6"}] : k \in 0..n }
Contents ==
    { lead \o sign \o digits \o junk \o trail :
        lead \in { << >>, << " " >> },
        sign \in { << >>, << "+" >>, << "-" >> },
        digits \in DigitStrings(MaxDigits),
        junk \in { << >>, << "x" >>, << " ", "5" >> },
        trail \in { << >>, << "\n", " " >> } }

\* ------------------------------------------------------------------ strategy resolution

\* cli.strategy
StrategyOpts == {"File", "Pcp", "Natpmp", "Auto"}

\* What the filesystem answers about a path: whether path.exists(), and whether
\* path.parent() is None ("none", the root), or a directory that exists
\* ("present") or does not ("missing"; also the empty parent of a bare relative
\* file name, for which exists() is false). A path without a parent is the root,
\* which exists.
PathProbes ==
    { [exists |-> e, parent |-> q] : e \in BOOLEAN, q \in {"missing", "present"} }
    \cup { [exists |-> TRUE, parent |-> "none"] }

\* Config::resolved_forwarded_port_path (src/config.rs:85-98): the configured
\* path, else on Linux the default path, else None.
resolved_forwarded_port_path(configured, linux, default) ==
    IF IsSome(configured) THEN configured
    ELSE IF linux THEN Some(default)
    ELSE None

\* prefer_file_strategy (src/main.rs:555-572); off Linux it is always false.
prefer_file_strategy_file_only(path, linux) ==
    IF linux /\ IsSome(path) THEN Unwrap(path).exists ELSE FALSE
prefer_file_strategy(path, linux) ==
    IF linux /\ IsSome(path)
    THEN IF Unwrap(path).exists THEN TRUE
         ELSE IF Unwrap(path).parent # "none" THEN Unwrap(path).parent = "present"
         ELSE FALSE
    ELSE FALSE

\* resolve_forwarded_port_path (src/main.rs:608-619)
resolve_forwarded_port_path_checks_file(path) ==
    IF path = None
    THEN [ok |-> FALSE, err |-> Error("Unsupported", {"path"})]
    ELSE IF Unwrap(path).exists
         THEN [ok |-> TRUE, path |-> Unwrap(path)]
         ELSE [ok |-> FALSE, err |-> Error("Config", {"path"})]
resolve_forwarded_port_path(path) ==
    IF path = None
    THEN [ok |-> FALSE, err |-> Error("Unsupported", {"path"})]
    ELSE IF Unwrap(path).parent # "none"
         THEN IF Unwrap(path).parent = "present"
              THEN [ok |-> TRUE, path |-> Unwrap(path)]
              ELSE [ok |-> FALSE, err |-> Error("Config", {"path"})]
         ELSE [ok |-> FALSE, err |-> Error("Config", {"path"})]

\* The File arm of resolve_plan: `resolve_forwarded_port_path(config)?`, then
\* StrategyPlan::File { path }.
FilePlan(path) ==
    LET r == resolve_forwarded_port_path(path) IN
    IF r.ok THEN [ok |-> TRUE, plan |-> "File", path |-> r.path] ELSE r

\* resolve_plan (src/main.rs:574-597)
resolve_plan(strategy, path, linux) ==
    CASE strategy = "File" -> FilePlan(path)
      [] strategy = "Pcp" -> [ok |-> TRUE, plan |-> "PcpOnly"]
      [] strategy = "Natpmp" -> [ok |-> TRUE, plan |-> "NatOnly"]
      [] strategy = "Auto" ->
            IF prefer_file_strategy(path, linux)
            THEN FilePlan(path)
            ELSE [ok |-> TRUE, plan |-> "Auto"]

\* ------------------------------------------------------------------ process surface

\* handle_request, the "/healthz" arm (src/metrics_server.rs:86-98): the status
\* code answered for a value of the health flag.
healthz(flag) == IF flag THEN 200 ELSE 503

\* ExitCode (src/error.rs:7-12) as the process exit status.
ExitCodeOf(name) ==
    CASE name = "Success" -> 0
      [] name = "Transient" -> 1
      [] name = "Config" -> 2
      [] name = "Unsupported" -> 3

\* classify_error (src/error.rs:62-79) on the type the error downcasts to.
classify_error_ignores_portmap(err) ==
    IF err.kind = "Config" THEN "Config"
    ELSE IF err.kind = "Unsupported" THEN "Unsupported"
    ELSE "Transient"
classify_error(err) ==
    IF err.kind = "Config" THEN "Config"
    ELSE IF err.kind = "Unsupported" THEN "Unsupported"
    ELSE IF err.kind = "PcpNotSupported" THEN "Unsupported"
    ELSE "Transient"

\* run, the match on the result of run_once (src/main.rs:238-262): the report and
\* the exit code of a single-shot run.
RunReport(result, upd, err) ==
    IF result = "ok"
    THEN [applied |-> TRUE,
          verified |-> Unwrap(upd).verified,
          detected_port |-> Some(Unwrap(upd).detected_port),
          code |-> ExitCodeOf("Success")]
    ELSE [applied |-> FALSE,
          verified |-> FALSE,
          detected_port |-> None,
          code |-> ExitCodeOf(classify_error(Unwrap(err)))]

\* ------------------------------------------------------------------ engine: shared steps

\* The forwarded-port file: whether it exists and what parse_port makes of its
\* content (None: the content does not parse).
FileStates ==
    { [exists |-> FALSE, port |-> None] }
    \cup { [exists |-> TRUE, port |-> o] : o \in {None} \cup { Some(p) : p \in Ports } }

Init ==
    /\ once \in BOOLEAN
    /\ plan \in Plans
    /\ refresh \in RefreshChoices
    /\ pc = IF plan = "File" /\ ~once THEN "select" ELSE "cycle"
    /\ cancel = FALSE
    /\ health = FALSE
    /\ listenPort = 6881
    /\ calls = << >>
    /\ pcpRes = "none"
    /\ natRes = "none"
    /\ pcpErr = None
    /\ lifetime = None
    /\ map = None
    /\ applyPort = None
    /\ cycle = "none"
    /\ cycleErr = None
    /\ update = None
    /\ nextDelay = 0
    /\ timerFired = FALSE
    /\ negInFlight = 0
    /\ applyInFlight = 0
    /\ chan = << >>
    /\ wpc = IF plan = "File" /\ ~once THEN "init" ELSE "off"
    /\ lastPort = None
    /\ file \in FileStates
    /\ events = << >>
    /\ writes = 0
    /\ watch = "none"
    /\ emitted = << >>
    /\ call = None
    /\ ret = None
    /\ json \in (IF once THEN BOOLEAN ELSE {FALSE})
    /\ steps = << "load_config", "login", "resolve_plan" >>
    /\ runResult = None
    /\ exited = None

\* run_portmap_daemon, the Err arm of the cycle (src/main.rs:459-464): warn, mark
\* unhealthy, sleep for the configured refresh interval.
DaemonCycleFailedExits(err) ==
    /\ cycle' = "err"
    /\ cycleErr' = Some(err)
    /\ health' = FALSE
    /\ nextDelay' = refresh * 1000
    /\ timerFired' = FALSE
    /\ pc' = "failed"
DaemonCycleFailed(err) ==
    /\ cycle' = "err"
    /\ cycleErr' = Some(err)
    /\ health' = FALSE
    /\ nextDelay' = refresh * 1000
    /\ timerFired' = FALSE
    /\ pc' = "sleep"

\* run, the Err arm of run_once (src/main.rs:246-262): the run ends with the error.
OnceFailed(err) ==
    /\ cycle' = "err"
    /\ cycleErr' = Some(err)
    /\ pc' = "done"
    /\ UNCHANGED << health, nextDelay, timerFired >>

\* A `?` inside a portmap cycle: the error reaches the caller of the cycle.
CycleFailed(err) == IF once THEN OnceFailed(err) ELSE DaemonCycleFailed(err)

\* `client.set_listen_port(port, bind_interface)` is called and awaited.
StartApply(port) ==
    /\ pc' = "apply"
    /\ applyPort' = Some(port)
    /\ applyInFlight' = applyInFlight + 1

\* ------------------------------------------------------------------ engine: negotiation

\* portmap_cycle / run_once enter map_prefer_pcp_fallback_natpmp, map_with_pcp or
\* map_with_natpmp: build_request (which fails when no gateway address is found),
\* then the first protocol attempt is sent.
NegotiateStartSendsFirst ==
    /\ pc = "cycle"
    /\ plan \in PortmapModes
    /\ pcpRes' = "none"
    /\ natRes' = "none"
    /\ pcpErr' = None
    /\ lifetime' = None
    /\ map' = None
    /\ \E configured \in GatewayConfigs, autodiscover \in BOOLEAN, discovered \in BOOLEAN :
        LET gateway == resolve_gateway(configured, autodiscover, discovered) IN
        IF gateway.ok
        THEN /\ pc' = IF plan = "NatOnly" THEN "natpmp" ELSE "pcp"
             /\ calls' = IF plan = "NatOnly" THEN << "natpmp" >> ELSE << "pcp" >>
             /\ negInFlight' = negInFlight + 1
             /\ UNCHANGED << cycle, cycleErr, health, nextDelay, timerFired >>
        ELSE /\ calls' = IF plan = "NatOnly" THEN << "natpmp" >> ELSE << "pcp" >>
             /\ UNCHANGED negInFlight
             /\ CycleFailed(gateway.err)
    /\ UNCHANGED pureVars
    /\ UNCHANGED runVars
    /\ UNCHANGED << once, plan, refresh, cancel, listenPort, applyPort, update,
                    applyInFlight >>
    /\ UNCHANGED watchVars
NegotiateStart ==
    /\ pc = "cycle"
    /\ plan \in PortmapModes
    /\ pcpRes' = "none"
    /\ natRes' = "none"
    /\ pcpErr' = None
    /\ lifetime' = None
    /\ map' = None
    /\ \E configured \in GatewayConfigs, autodiscover \in BOOLEAN, discovered \in BOOLEAN :
        LET gateway == resolve_gateway(configured, autodiscover, discovered) IN
        IF gateway.ok
        THEN /\ pc' = IF plan = "NatOnly" THEN "natpmp" ELSE "pcp"
             /\ calls' = IF plan = "NatOnly" THEN << "natpmp" >> ELSE << "pcp" >>
             /\ negInFlight' = negInFlight + 1
             /\ UNCHANGED << cycle, cycleErr, health, nextDelay, timerFired >>
        ELSE /\ calls' = << >>
             /\ UNCHANGED negInFlight
             /\ CycleFailed(gateway.err)
    /\ UNCHANGED pureVars
    /\ UNCHANGED runVars
    /\ UNCHANGED << once, plan, refresh, cancel, listenPort, applyPort, update,
                    applyInFlight >>
    /\ UNCHANGED watchVars

\* try_pcp returns. Success goes on to the apply call; in Auto mode a failure sends
\* the NAT-PMP request; in PcpOnly mode a failure fails the cycle.
PcpReturn ==
    /\ pc = "pcp"
    /\ \E r \in PcpOutcomes :
        IF r.ok
        THEN /\ pcpRes' = "ok"
             /\ lifetime' = Some(r.lifetime)
             /\ map' = Some(r.result)
             /\ negInFlight' = negInFlight - 1
             /\ StartApply(r.result.external_port)
             /\ UNCHANGED << calls, pcpErr, cycle, cycleErr, health, nextDelay,
                             timerFired >>
        ELSE /\ pcpRes' = "err"
             /\ IF HasFallback(plan) /\ FallsBackToNatpmp(r.err)
                THEN /\ pc' = "natpmp"
                     /\ calls' = Append(calls, "natpmp")
                     /\ pcpErr' = Some(r.err)
                     /\ UNCHANGED << negInFlight, cycle, cycleErr, health, nextDelay,
                                     timerFired >>
                ELSE /\ negInFlight' = negInFlight - 1
                     /\ CycleFailed(r.err)
                     /\ UNCHANGED << calls, pcpErr >>
             /\ UNCHANGED << lifetime, map, applyPort, applyInFlight >>
    /\ UNCHANGED pureVars
    /\ UNCHANGED runVars
    /\ UNCHANGED << once, plan, refresh, cancel, listenPort, natRes, update >>
    /\ UNCHANGED watchVars

\* try_natpmp returns (NatOnly mode, or the fallback of Auto mode).
NatpmpReturnAppliesAnyway ==
    /\ pc = "natpmp"
    /\ negInFlight' = negInFlight - 1
    /\ \E r \in NatpmpOutcomes :
        IF r.ok
        THEN /\ natRes' = "ok"
             /\ lifetime' = Some(r.lifetime)
             /\ map' = Some(r.result)
             /\ StartApply(r.result.external_port)
             /\ UNCHANGED << cycle, cycleErr, health, nextDelay, timerFired >>
        ELSE /\ natRes' = "err"
             /\ StartApply(0)
             /\ UNCHANGED << lifetime, map, cycle, cycleErr, health, nextDelay, timerFired >>
    /\ UNCHANGED pureVars
    /\ UNCHANGED runVars
    /\ UNCHANGED << once, plan, refresh, cancel, listenPort, calls, pcpRes, pcpErr,
                    update >>
    /\ UNCHANGED watchVars
NatpmpReturn ==
    /\ pc = "natpmp"
    /\ negInFlight' = negInFlight - 1
    /\ \E r \in NatpmpOutcomes :
        IF r.ok
        THEN /\ natRes' = "ok"
             /\ lifetime' = Some(r.lifetime)
             /\ map' = Some(r.result)
             /\ StartApply(r.result.external_port)
             /\ UNCHANGED << cycle, cycleErr, health, nextDelay, timerFired >>
        ELSE /\ natRes' = "err"
             /\ CycleFailed(IF IsSome(pcpErr)
                            THEN FallbackError(Unwrap(pcpErr), r.err)
                            ELSE r.err)
             /\ UNCHANGED << lifetime, map, applyPort, applyInFlight >>
    /\ UNCHANGED pureVars
    /\ UNCHANGED runVars
    /\ UNCHANGED << once, plan, refresh, cancel, listenPort, calls, pcpRes, pcpErr,
                    update >>
    /\ UNCHANGED watchVars


\* ------------------------------------------------------------------ engine: apply

\* portmap_cycle after `set_listen_port(..).await` (src/main.rs:495-523): on Ok the
\* health flag takes `update.verified` and the delay is derived from the lease; an
\* Err leaves through `?` into the Err arm of run_portmap_daemon.
PortmapApplyReturnStrict ==
    /\ pc = "apply"
    /\ plan \in PortmapModes
    /\ ~once
    /\ applyInFlight' = applyInFlight - 1
    /\ \E r \in ApplyOutcomes(Unwrap(applyPort), listenPort) :
        /\ listenPort' = r.listen
        /\ IF r.ok
           THEN /\ update' = Some(r.result)
                /\ IF r.result.verified
                   THEN /\ health' = TRUE
                        /\ nextDelay' = LeaseDelay(Unwrap(map).ttl, refresh)
                        /\ timerFired' = FALSE
                        /\ cycle' = "ok"
                        /\ cycleErr' = None
                        /\ pc' = "sleep"
                   ELSE DaemonCycleFailed(Error("Qbit", {"apply"}))
           ELSE /\ update' = None
                /\ DaemonCycleFailed(r.err)
    /\ UNCHANGED pureVars
    /\ UNCHANGED runVars
    /\ UNCHANGED << once, plan, refresh, cancel, calls, pcpRes, natRes, pcpErr, lifetime,
                    map, applyPort, negInFlight >>
    /\ UNCHANGED watchVars
PortmapApplyReturn ==
    /\ pc = "apply"
    /\ plan \in PortmapModes
    /\ ~once
    /\ applyInFlight' = applyInFlight - 1
    /\ \E r \in ApplyOutcomes(Unwrap(applyPort), listenPort) :
        /\ listenPort' = r.listen
        /\ IF r.ok
           THEN /\ update' = Some(r.result)
                /\ health' = r.result.verified
                /\ nextDelay' = LeaseDelay(Unwrap(map).ttl, refresh)
                /\ timerFired' = FALSE
                /\ cycle' = "ok"
                /\ cycleErr' = None
                /\ pc' = "sleep"
           ELSE /\ update' = None
                /\ DaemonCycleFailed(r.err)
    /\ UNCHANGED pureVars
    /\ UNCHANGED runVars
    /\ UNCHANGED << once, plan, refresh, cancel, calls, pcpRes, natRes, pcpErr, lifetime,
                    map, applyPort, negInFlight >>
    /\ UNCHANGED watchVars

\* run_once after `set_listen_port(..).await?` (src/main.rs:300-320, 329-351) and the
\* two arms of `run` that receive its result.
OnceApplyReturnRetries ==
    /\ pc = "apply"
    /\ once
    /\ applyInFlight' = applyInFlight - 1
    /\ \E r \in ApplyOutcomes(Unwrap(applyPort), listenPort) :
        /\ listenPort' = r.listen
        /\ IF r.ok
           THEN /\ update' = Some(r.result)
                /\ health' = TRUE
                /\ cycle' = "ok"
                /\ cycleErr' = None
                /\ pc' = "done"
                /\ UNCHANGED << nextDelay, timerFired >>
           ELSE /\ update' = None
                /\ cycle' = "err"
                /\ cycleErr' = Some(r.err)
                /\ pc' = "cycle"
                /\ UNCHANGED << health, nextDelay, timerFired >>
    /\ UNCHANGED pureVars
    /\ UNCHANGED runVars
    /\ UNCHANGED << once, plan, refresh, cancel, calls, pcpRes, natRes, pcpErr, lifetime,
                    map, applyPort, negInFlight >>
    /\ UNCHANGED watchVars
OnceApplyReturn ==
    /\ pc = "apply"
    /\ once
    /\ applyInFlight' = applyInFlight - 1
    /\ \E r \in ApplyOutcomes(Unwrap(applyPort), listenPort) :
        /\ listenPort' = r.listen
        /\ IF r.ok
           THEN /\ update' = Some(r.result)
                /\ health' = TRUE
                /\ cycle' = "ok"
                /\ cycleErr' = None
                /\ pc' = "done"
                /\ UNCHANGED << nextDelay, timerFired >>
           ELSE /\ update' = None
                /\ OnceFailed(r.err)
    /\ UNCHANGED pureVars
    /\ UNCHANGED runVars
    /\ UNCHANGED << once, plan, refresh, cancel, calls, pcpRes, natRes, pcpErr, lifetime,
                    map, applyPort, negInFlight >>
    /\ UNCHANGED watchVars

\* run_once, File plan (src/main.rs:297-300): read_forwarded_port_once, then apply.
OnceFileRead ==
    /\ pc = "cycle"
    /\ plan = "File"
    /\ once
    /\ IF file.exists /\ IsSome(file.port)
       THEN /\ StartApply(Unwrap(file.port))
            /\ UNCHANGED << cycle, cycleErr, health, nextDelay, timerFired >>
       ELSE /\ OnceFailed(Error(IF file.exists THEN "Parse" ELSE "Io", {"file"}))
            /\ UNCHANGED << applyPort, applyInFlight >>
    /\ UNCHANGED pureVars
    /\ UNCHANGED runVars
    /\ UNCHANGED << once, plan, refresh, cancel, listenPort, calls, pcpRes, natRes, pcpErr,
                    lifetime, map, update, negInFlight >>
    /\ UNCHANGED watchVars

\* ------------------------------------------------------------------ portmap daemon: sleep

\* The environment: time passes and the sleep of the select elapses.
TimerFire ==
    /\ pc = "sleep"
    /\ ~timerFired
    /\ timerFired' = TRUE
    /\ UNCHANGED pureVars
    /\ UNCHANGED runVars
    /\ UNCHANGED << once, plan, refresh, pc, cancel, health, listenPort, calls, pcpRes,
                    natRes, pcpErr, lifetime, map, applyPort, cycle, cycleErr, update,
                    nextDelay, negInFlight, applyInFlight >>
    /\ UNCHANGED watchVars

\* The environment: the cancellation signal is delivered to a daemon, at any time
\* before it has stopped. It stays delivered: the select that looks at it next
\* finds its ctrl_c branch ready. (A single-shot run never asks for the signal.)
Cancel ==
    /\ ~once
    /\ ~cancel
    /\ pc # "stopped"
    /\ cancel' = TRUE
    /\ UNCHANGED pureVars
    /\ UNCHANGED runVars
    /\ UNCHANGED << once, plan, refresh, pc, health, listenPort, calls, pcpRes,
                    natRes, pcpErr, lifetime, map, applyPort, cycle, cycleErr, update,
                    nextDelay, timerFired, negInFlight, applyInFlight >>
    /\ UNCHANGED watchVars

\* run_portmap_daemon, select! branch `_ = signal::ctrl_c()` (src/main.rs:468-471).
SleepCancelledAfterDelay ==
    /\ pc = "sleep"
    /\ cancel
    /\ timerFired
    /\ pc' = "stopped"
    /\ UNCHANGED pureVars
    /\ UNCHANGED runVars
    /\ UNCHANGED << once, plan, refresh, cancel, health, listenPort, calls, pcpRes,
                    natRes, pcpErr, lifetime, map, applyPort, cycle, cycleErr, update,
                    nextDelay, timerFired, negInFlight, applyInFlight >>
    /\ UNCHANGED watchVars
SleepCancelled ==
    /\ pc = "sleep"
    /\ cancel
    /\ pc' = "stopped"
    /\ UNCHANGED pureVars
    /\ UNCHANGED runVars
    /\ UNCHANGED << once, plan, refresh, cancel, health, listenPort, calls, pcpRes,
                    natRes, pcpErr, lifetime, map, applyPort, cycle, cycleErr, update,
                    nextDelay, timerFired, negInFlight, applyInFlight >>
    /\ UNCHANGED watchVars

\* run_portmap_daemon, select! branch `_ = time::sleep(next_delay)` (src/main.rs:472):
\* the loop goes round to the next cycle. select! has no `biased;`, so when both
\* branches are ready either may be taken.
SleepElapsedReresolves ==
    /\ pc = "sleep"
    /\ timerFired
    /\ IF file.exists
       THEN /\ plan' = "File"
            /\ pc' = "select"
            /\ wpc' = "init"
       ELSE /\ pc' = "cycle"
            /\ UNCHANGED << plan, wpc >>
    /\ UNCHANGED pureVars
    /\ UNCHANGED runVars
    /\ UNCHANGED << once, refresh, cancel, health, listenPort, calls, pcpRes,
                    natRes, pcpErr, lifetime, map, applyPort, cycle, cycleErr, update,
                    nextDelay, timerFired, negInFlight, applyInFlight >>
    /\ UNCHANGED << chan, lastPort, file, events, writes, watch, emitted >>
SleepElapsed ==
    /\ pc = "sleep"
    /\ timerFired
    /\ pc' = "cycle"
    /\ UNCHANGED pureVars
    /\ UNCHANGED runVars
    /\ UNCHANGED << once, plan, refresh, cancel, health, listenPort, calls, pcpRes,
                    natRes, pcpErr, lifetime, map, applyPort, cycle, cycleErr, update,
                    nextDelay, timerFired, negInFlight, applyInFlight >>
    /\ UNCHANGED watchVars


\* ------------------------------------------------------------------ file daemon: watcher task

\* run_file_daemon spawns `watch::watch_forwarded_port(path, callback)`
\* (src/main.rs:396-404). The watcher loop of src/watch.rs is run_file_watcher, which
\* hands every port it emits to `client.update_listen_port(port)`; the watcher task
\* of the daemon hands it to the callback instead, which cannot fail. The task is
\* that loop with the callback of src/main.rs:398 as its sink; it shares nothing
\* with the apply loop but the channel.

\* The callback run_file_daemon hands to the watcher (src/main.rs:397-399):
\* `let _ = tx.try_send(port)` on a channel of 16; a full channel drops the port.
TrySend(queue, port) ==
    IF Len(queue) < ChannelCapacity THEN Append(queue, port) ELSE queue

\* run_file_watcher registers its watch on the file itself when the file exists
\* and on the parent directory when it does not (src/watch.rs:28-39).
WatchTarget(f) == IF f.exists THEN "file" ELSE "dir"

\* A registered watch reports the changes of the file: a directory watch those of
\* every entry of the directory, a file watch those of the file it was put on.
Notifies(target) == target \in {"file", "dir"}

\* What is left of the watch once the file it may have been put on is gone
\* (deleted, or replaced by a new file of the same name). A directory watch is
\* not affected; whether a file watch outlives its file is up to the
\* notification backend (inotify and kqueue drop it).
WatchAfter(target, gone) ==
    IF target = "file" /\ gone THEN {"lost", "file"} ELSE {target}

\* The environment: the VPN client rewrites the forwarded-port file in place,
\* deletes it, creates it, or replaces it by a new file; a registered watch queues
\* a notification naming the watched path.
FileWrite ==
    /\ plan = "File"
    /\ ~once
    /\ pc # "stopped"
    /\ writes < MaxWrites
    /\ writes' = writes + 1
    /\ \E f \in FileStates, replaced \in BOOLEAN :
        /\ file.exists \/ f.exists
        /\ replaced => (file.exists /\ f.exists)
        /\ file' = f
        /\ watch' \in WatchAfter(watch, file.exists /\ (~f.exists \/ replaced))
    /\ IF Notifies(watch)
       THEN /\ Len(events) < MaxEvents
            /\ events' = Append(events, "relevant")
       ELSE UNCHANGED events
    /\ UNCHANGED << chan, wpc, lastPort, emitted >>
    /\ UNCHANGED engineVars
    /\ UNCHANGED pureVars
    /\ UNCHANGED runVars

\* The environment: the forwarded-port file is created while a daemon runs in a
\* mapping mode. run_daemon chose run_portmap_daemon from the plan
\* (src/main.rs:370-383), whose loop (src/main.rs:447-480) holds no watch and
\* never looks at the file: nothing but the file changes.
FileAppears ==
    /\ plan \in PortmapModes
    /\ ~once
    /\ pc # "stopped"
    /\ ~file.exists
    /\ writes < MaxWrites
    /\ writes' = writes + 1
    /\ \E f \in FileStates :
        /\ f.exists
        /\ file' = f
    /\ UNCHANGED << chan, wpc, lastPort, events, watch, emitted >>
    /\ UNCHANGED engineVars
    /\ UNCHANGED pureVars
    /\ UNCHANGED runVars

\* The environment: a notification that does not name the watched path or its
\* parent, or an error reported by the notification backend.
OtherNotification ==
    /\ plan = "File"
    /\ ~once
    /\ pc # "stopped"
    /\ Notifies(watch)
    /\ Len(events) < MaxEvents
    /\ \E e \in {"other", "error"} : events' = Append(events, e)
    /\ UNCHANGED << chan, wpc, lastPort, file, writes, watch, emitted >>
    /\ UNCHANGED engineVars
    /\ UNCHANGED pureVars
    /\ UNCHANGED runVars

\* The watcher task starts (src/watch.rs:24-46): registering the watch can fail,
\* which ends the task; otherwise a file that reads and parses is emitted at once
\* and remembered as last_port.
WatcherStartNoInitialRead ==
    /\ wpc = "init"
    /\ pc # "stopped"
    /\ \E registered \in BOOLEAN :
        IF ~registered
        THEN /\ wpc' = "ended"
             /\ UNCHANGED << chan, lastPort, watch, emitted >>
        ELSE /\ wpc' = "wait"
             /\ watch' = WatchTarget(file)
             /\ UNCHANGED << chan, lastPort, emitted >>
    /\ UNCHANGED << file, events, writes >>
    /\ UNCHANGED engineVars
    /\ UNCHANGED pureVars
    /\ UNCHANGED runVars
WatcherStart ==
    /\ wpc = "init"
    /\ pc # "stopped"
    /\ \E registered \in BOOLEAN :
        IF ~registered
        THEN /\ wpc' = "ended"
             /\ UNCHANGED << chan, lastPort, watch, emitted >>
        ELSE /\ wpc' = "wait"
             /\ watch' = WatchTarget(file)
             /\ IF file.exists /\ IsSome(file.port)
                THEN /\ chan' = TrySend(chan, Unwrap(file.port))
                     /\ emitted' = Append(emitted, Unwrap(file.port))
                     /\ lastPort' = file.port
                ELSE UNCHANGED << chan, lastPort, emitted >>
    /\ UNCHANGED << file, events, writes >>
    /\ UNCHANGED engineVars
    /\ UNCHANGED pureVars
    /\ UNCHANGED runVars

\* The watcher loop receives a notification (src/watch.rs:56-61, 72): an error is
\* logged, an irrelevant event skipped, a relevant one starts the debounce sleep.
WatcherRecv ==
    /\ wpc = "wait"
    /\ pc # "stopped"
    /\ events # << >>
    /\ events' = Tail(events)
    /\ wpc' = IF Head(events) = "relevant" THEN "debounce" ELSE "wait"
    /\ UNCHANGED << chan, lastPort, file, writes, watch, emitted >>
    /\ UNCHANGED engineVars
    /\ UNCHANGED pureVars
    /\ UNCHANGED runVars

\* handle_event after its 250 ms sleep (src/watch.rs:62-70, 96-105): re-read the
\* file; a read or parse failure yields nothing; a port different from last_port is
\* emitted and remembered.
WatcherHandleNoDedup ==
    /\ wpc = "debounce"
    /\ pc # "stopped"
    /\ wpc' = "wait"
    /\ IF file.exists /\ IsSome(file.port)
       THEN /\ chan' = TrySend(chan, Unwrap(file.port))
            /\ emitted' = Append(emitted, Unwrap(file.port))
            /\ lastPort' = file.port
       ELSE UNCHANGED << chan, lastPort, emitted >>
    /\ UNCHANGED << file, events, writes, watch >>
    /\ UNCHANGED engineVars
    /\ UNCHANGED pureVars
    /\ UNCHANGED runVars
WatcherHandleForgets ==
    /\ wpc = "debounce"
    /\ pc # "stopped"
    /\ wpc' = "wait"
    /\ IF file.exists /\ IsSome(file.port) /\ lastPort # file.port
       THEN /\ chan' = TrySend(chan, Unwrap(file.port))
            /\ emitted' = Append(emitted, Unwrap(file.port))
            /\ lastPort' = lastPort
       ELSE UNCHANGED << chan, lastPort, emitted >>
    /\ UNCHANGED << file, events, writes, watch >>
    /\ UNCHANGED engineVars
    /\ UNCHANGED pureVars
    /\ UNCHANGED runVars
WatcherHandlePropagates ==
    /\ wpc = "debounce"
    /\ pc # "stopped"
    /\ wpc' = IF file.exists /\ IsSome(file.port) THEN "wait" ELSE "ended"
    /\ IF file.exists /\ IsSome(file.port) /\ lastPort # file.port
       THEN /\ chan' = TrySend(chan, Unwrap(file.port))
            /\ emitted' = Append(emitted, Unwrap(file.port))
            /\ lastPort' = file.port
       ELSE UNCHANGED << chan, lastPort, emitted >>
    /\ UNCHANGED << file, events, writes, watch >>
    /\ UNCHANGED engineVars
    /\ UNCHANGED pureVars
    /\ UNCHANGED runVars
WatcherHandle ==
    /\ wpc = "debounce"
    /\ pc # "stopped"
    /\ wpc' = "wait"
    /\ IF file.exists /\ IsSome(file.port) /\ lastPort # file.port
       THEN /\ chan' = TrySend(chan, Unwrap(file.port))
            /\ emitted' = Append(emitted, Unwrap(file.port))
            /\ lastPort' = file.port
       ELSE UNCHANGED << chan, lastPort, emitted >>
    /\ UNCHANGED << file, events, writes, watch >>
    /\ UNCHANGED engineVars
    /\ UNCHANGED pureVars
    /\ UNCHANGED runVars

\* ------------------------------------------------------------------ file daemon: apply loop

\* run_file_daemon, select! branch `_ = signal::ctrl_c()` (src/main.rs:408-411).
FileSelectCancelled ==
    /\ pc = "select"
    /\ cancel
    /\ pc' = "stopped"
    /\ UNCHANGED pureVars
    /\ UNCHANGED runVars
    /\ UNCHANGED << once, plan, refresh, cancel, health, listenPort, calls, pcpRes,
                    natRes, pcpErr, lifetime, map, applyPort, cycle, cycleErr, update,
                    nextDelay, timerFired, negInFlight, applyInFlight >>
    /\ UNCHANGED watchVars

\* run_file_daemon, select! branch `Some(port) = rx.recv()` (src/main.rs:412-414):
\* the oldest queued port is taken and handed to set_listen_port.
FileSelectRecvDetached ==
    /\ pc = "select"
    /\ chan # << >>
    /\ chan' = Tail(chan)
    /\ applyPort' = Some(Head(chan))
    /\ applyInFlight' = applyInFlight + 1
    /\ pc' = "select"
    /\ UNCHANGED pureVars
    /\ UNCHANGED runVars
    /\ UNCHANGED << once, plan, refresh, cancel, health, listenPort, calls, pcpRes,
                    natRes, pcpErr, lifetime, map, cycle, cycleErr, update, nextDelay,
                    timerFired, negInFlight >>
    /\ UNCHANGED << wpc, lastPort, file, events, writes, watch, emitted >>
FileSelectRecvEndsOnClose ==
    /\ pc = "select"
    /\ chan # << >> \/ wpc = "ended"
    /\ IF chan # << >>
       THEN /\ chan' = Tail(chan)
            /\ StartApply(Head(chan))
       ELSE /\ pc' = "stopped"
            /\ UNCHANGED << chan, applyPort, applyInFlight >>
    /\ UNCHANGED pureVars
    /\ UNCHANGED runVars
    /\ UNCHANGED << once, plan, refresh, cancel, health, listenPort, calls, pcpRes,
                    natRes, pcpErr, lifetime, map, cycle, cycleErr, update, nextDelay,
                    timerFired, negInFlight >>
    /\ UNCHANGED << wpc, lastPort, file, events, writes, watch, emitted >>
FileSelectRecv ==
    /\ pc = "select"
    /\ chan # << >>
    /\ chan' = Tail(chan)
    /\ StartApply(Head(chan))
    /\ UNCHANGED pureVars
    /\ UNCHANGED runVars
    /\ UNCHANGED << once, plan, refresh, cancel, health, listenPort, calls, pcpRes,
                    natRes, pcpErr, lifetime, map, cycle, cycleErr, update, nextDelay,
                    timerFired, negInFlight >>
    /\ UNCHANGED << wpc, lastPort, file, events, writes, watch, emitted >>

\* run_file_daemon, the match on the apply result (src/main.rs:414-435): Ok marks
\* healthy, Err is logged and marks unhealthy; the loop goes back to the select.
FileApplyReturnPropagates ==
    /\ pc = "apply"
    /\ plan = "File"
    /\ ~once
    /\ applyInFlight' = applyInFlight - 1
    /\ \E r \in ApplyOutcomes(Unwrap(applyPort), listenPort) :
        /\ listenPort' = r.listen
        /\ IF r.ok
           THEN /\ update' = Some(r.result)
                /\ health' = TRUE
                /\ cycle' = "ok"
                /\ cycleErr' = None
                /\ pc' = "select"
           ELSE /\ update' = None
                /\ health' = FALSE
                /\ cycle' = "err"
                /\ cycleErr' = Some(r.err)
                /\ pc' = "failed"
    /\ UNCHANGED pureVars
    /\ UNCHANGED runVars
    /\ UNCHANGED << once, plan, refresh, cancel, calls, pcpRes, natRes, pcpErr, lifetime,
                    map, applyPort, nextDelay, timerFired, negInFlight >>
    /\ UNCHANGED watchVars
FileApplyReturnRequeues ==
    /\ pc = "apply"
    /\ plan = "File"
    /\ ~once
    /\ applyInFlight' = applyInFlight - 1
    /\ \E r \in ApplyOutcomes(Unwrap(applyPort), listenPort) :
        /\ listenPort' = r.listen
        /\ IF r.ok
           THEN /\ update' = Some(r.result)
                /\ health' = TRUE
                /\ cycle' = "ok"
                /\ cycleErr' = None
                /\ chan' = chan
           ELSE /\ update' = None
                /\ health' = FALSE
                /\ cycle' = "err"
                /\ cycleErr' = Some(r.err)
                /\ chan' = TrySend(chan, Unwrap(applyPort))
    /\ pc' = "select"
    /\ UNCHANGED pureVars
    /\ UNCHANGED runVars
    /\ UNCHANGED << once, plan, refresh, cancel, calls, pcpRes, natRes, pcpErr, lifetime,
                    map, applyPort, nextDelay, timerFired, negInFlight >>
    /\ UNCHANGED << wpc, lastPort, file, events, writes, watch, emitted >>
FileApplyReturn ==
    /\ pc = "apply"
    /\ plan = "File"
    /\ ~once
    /\ applyInFlight' = applyInFlight - 1
    /\ \E r \in ApplyOutcomes(Unwrap(applyPort), listenPort) :
        /\ listenPort' = r.listen
        /\ IF r.ok
           THEN /\ update' = Some(r.result)
                /\ health' = TRUE
                /\ cycle' = "ok"
                /\ cycleErr' = None
           ELSE /\ update' = None
                /\ health' = FALSE
                /\ cycle' = "err"
                /\ cycleErr' = Some(r.err)
    /\ pc' = "select"
    /\ UNCHANGED pureVars
    /\ UNCHANGED runVars
    /\ UNCHANGED << once, plan, refresh, cancel, calls, pcpRes, natRes, pcpErr, lifetime,
                    map, applyPort, nextDelay, timerFired, negInFlight >>
    /\ UNCHANGED watchVars

\* ------------------------------------------------------------------ specification

Next ==
    \/ NegotiateStart
    \/ PcpReturn
    \/ NatpmpReturn
    \/ PortmapApplyReturn
    \/ OnceApplyReturn
    \/ OnceFileRead
    \/ TimerFire
    \/ Cancel
    \/ SleepCancelled
    \/ SleepElapsed
    \/ FileWrite
    \/ FileAppears
    \/ OtherNotification
    \/ WatcherStart
    \/ WatcherRecv
    \/ WatcherHandle
    \/ FileSelectCancelled
    \/ FileSelectRecv
    \/ FileApplyReturn

Spec == Init /\ [][Next]_vars

\* The engine task (run_once, run_portmap_daemon or the loop of run_file_daemon).
EngineStep ==
    \/ NegotiateStart
    \/ PcpReturn
    \/ NatpmpReturn
    \/ PortmapApplyReturn
    \/ OnceApplyReturn
    \/ OnceFileRead
    \/ SleepCancelled
    \/ SleepElapsed
    \/ FileSelectCancelled
    \/ FileSelectRecv
    \/ FileApplyReturn

\* The watcher task spawned by run_file_daemon.
WatcherStep ==
    \/ WatcherStart
    \/ WatcherRecv
    \/ WatcherHandle

\* Both tasks run on the tokio runtime, which polls a task that can make progress,
\* and time passes; the signal and the file writes are up to the environment.
FairSpec ==
    /\ Spec
    /\ WF_vars(EngineStep)
    /\ WF_vars(WatcherStep)
    /\ WF_vars(TimerFire)

\* The file daemon alone: run_file_daemon, its watcher task and their environment.
FileDaemonInit == Init /\ plan = "File" /\ ~once

FileDaemonNext ==
    \/ Cancel
    \/ FileWrite
    \/ OtherNotification
    \/ WatcherStart
    \/ WatcherRecv
    \/ WatcherHandle
    \/ FileSelectCancelled
    \/ FileSelectRecv
    \/ FileApplyReturn

FileDaemonSpec ==
    /\ FileDaemonInit
    /\ [][FileDaemonNext]_vars
    /\ WF_vars(FileSelectCancelled \/ FileSelectRecv \/ FileApplyReturn)
    /\ WF_vars(WatcherStep)

\* The file daemon while the VPN client writes one value over and over: the first
\* write brings a port the watcher has not emitted last, every later write puts
\* the same port again (in place or as a new file), in any timing relative to the
\* watcher's debounce sleep.
BurstWrite ==
    /\ FileWrite
    /\ file'.exists
    /\ IsSome(file'.port)
    /\ IF writes = 0 THEN file'.port # lastPort ELSE file'.port = file.port

BurstNext ==
    \/ Cancel
    \/ BurstWrite
    \/ OtherNotification
    \/ WatcherStart
    \/ WatcherRecv
    \/ WatcherHandle
    \/ FileSelectCancelled
    \/ FileSelectRecv
    \/ FileApplyReturn

BurstSpec ==
    /\ FileDaemonInit
    /\ [][BurstNext]_vars
    /\ WF_vars(FileSelectCancelled \/ FileSelectRecv \/ FileApplyReturn)
    /\ WF_vars(WatcherStep)

\* The file daemon while the VPN client keeps changing the port: every write puts,
\* in place, a port different from the one in the file, faster than the apply
\* loop takes ports from the channel (an apply call is up to three HTTP requests
\* of up to 15 s each, src/qbit.rs:48; the watcher needs 250 ms per change).
PortChange ==
    /\ plan = "File"
    /\ ~once
    /\ pc # "stopped"
    /\ file.exists
    /\ writes < MaxChanges
    /\ writes' = writes + 1
    /\ \E p \in Ports :
        /\ file.port # Some(p)
        /\ file' = [exists |-> TRUE, port |-> Some(p)]
    /\ IF Notifies(watch)
       THEN /\ Len(events) < MaxEvents
            /\ events' = Append(events, "relevant")
       ELSE UNCHANGED events
    /\ UNCHANGED << chan, wpc, lastPort, watch, emitted >>
    /\ UNCHANGED engineVars
    /\ UNCHANGED pureVars
    /\ UNCHANGED runVars

BacklogInit == FileDaemonInit /\ file.exists /\ IsSome(file.port)

BacklogNext ==
    \/ PortChange
    \/ WatcherStart
    \/ WatcherRecv
    \/ WatcherHandle
    \/ FileSelectRecv
    \/ FileApplyReturn

BacklogSpec ==
    /\ BacklogInit
    /\ [][BacklogNext]_vars
    /\ WF_vars(FileSelectRecv \/ FileApplyReturn)
    /\ WF_vars(WatcherStep)

\* A single-shot run on its own: run_once (src/main.rs:289-354) from the resolved
\* plan to its return. It is one task; the runtime keeps polling it, and every
\* call it awaits returns (the HTTP client has a timeout, src/qbit.rs:48).
OnceInit == Init /\ once

OnceNext ==
    \/ NegotiateStart
    \/ PcpReturn
    \/ NatpmpReturn
    \/ OnceApplyReturn
    \/ OnceFileRead

OnceSpec == OnceInit /\ [][OnceNext]_vars /\ WF_vars(OnceNext)

\* ------------------------------------------------------------------ the run, from the command line to the exit code

\* JsonReport::new (src/report.rs:16-25), without the strategy label and the note.
JsonReport_new == [detected_port |-> None, applied |-> FALSE, verified |-> FALSE, error |-> None]

\* JsonReport::line (src/report.rs:27-29): the serialized record, as the function
\* from the keys written to their values. detected_port and error are skipped
\* when None (`skip_serializing_if`, src/report.rs:6, 11).
line_writes_null(report) ==
    [k \in {"applied", "verified", "detected_port", "error"} |->
        CASE k = "applied" -> report.applied
          [] k = "verified" -> report.verified
          [] k = "detected_port" -> report.detected_port
          [] k = "error" -> report.error]
line(report) ==
    [k \in {"applied", "verified"}
            \cup (IF IsSome(report.detected_port) THEN {"detected_port"} ELSE {})
            \cup (IF IsSome(report.error) THEN {"error"} ELSE {}) |->
        CASE k = "applied" -> report.applied
          [] k = "verified" -> report.verified
          [] k = "detected_port" -> Unwrap(report.detected_port)
          [] k = "error" -> Unwrap(report.error)]

\* `run` returns Err((report, err, code, emit_json)) (src/main.rs:108-226); `at`
\* names the step that failed. Every such return sets report.error and leaves the
\* other fields as JsonReport::new made them.
RunFails(at, err, code, emit_json) ==
    /\ runResult' = Some([ok |-> FALSE, at |-> at, err |-> Some(err), code |-> code,
                           emit_json |-> emit_json,
                           report |-> [JsonReport_new EXCEPT !.error = Some(err)]])
    /\ pc' = "done"

\* The state in which `main` calls `run`: nothing loaded, no plan yet.
RunInit ==
    /\ once \in BOOLEAN
    /\ json \in BOOLEAN
    /\ plan = "Unresolved"
    /\ refresh \in RefreshChoices
    /\ pc = "start"
    /\ cancel = FALSE
    /\ health = FALSE
    /\ listenPort = 6881
    /\ calls = << >>
    /\ pcpRes = "none"
    /\ natRes = "none"
    /\ pcpErr = None
    /\ lifetime = None
    /\ map = None
    /\ applyPort = None
    /\ cycle = "none"
    /\ cycleErr = None
    /\ update = None
    /\ nextDelay = 0
    /\ timerFired = FALSE
    /\ negInFlight = 0
    /\ applyInFlight = 0
    /\ chan = << >>
    /\ wpc = "off"
    /\ lastPort = None
    /\ file \in FileStates
    /\ events = << >>
    /\ writes = 0
    /\ watch = "none"
    /\ emitted = << >>
    /\ call = None
    /\ ret = None
    /\ steps = << >>
    /\ runResult = None
    /\ exited = None

\* run, the check of the flags (src/main.rs:113-121): --json without --once
\* returns an UnsupportedError with ExitCode::Config and emit_json = true.
RunCheckJsonClassifies ==
    /\ pc = "start"
    /\ IF json /\ ~once
       THEN RunFails("json",
                     Error("Unsupported", {"--json is only supported with --once mode"}),
                     ExitCodeOf(classify_error(Error("Unsupported", {"json"}))), TRUE)
       ELSE /\ pc' = "load"
            /\ UNCHANGED runResult
    /\ UNCHANGED << once, refresh, cancel, health, listenPort, calls, pcpRes, natRes, pcpErr,
                    lifetime, map, applyPort, cycle, cycleErr, update, nextDelay, timerFired,
                    negInFlight, applyInFlight >>
    /\ UNCHANGED << plan, json, steps, exited >>
    /\ UNCHANGED watchVars
    /\ UNCHANGED pureVars
RunCheckJson ==
    /\ pc = "start"
    /\ IF json /\ ~once
       THEN RunFails("json",
                     Error("Unsupported", {"--json is only supported with --once mode"}),
                     ExitCodeOf("Config"), TRUE)
       ELSE /\ pc' = "load"
            /\ UNCHANGED runResult
    /\ UNCHANGED << once, refresh, cancel, health, listenPort, calls, pcpRes, natRes, pcpErr,
                    lifetime, map, applyPort, cycle, cycleErr, update, nextDelay, timerFired,
                    negInFlight, applyInFlight >>
    /\ UNCHANGED << plan, json, steps, exited >>
    /\ UNCHANGED watchVars
    /\ UNCHANGED pureVars

\* What can fail between Config::load and QbitClient::new (src/main.rs:123-163),
\* with the exit code `run` returns: find_config fails with
\* ConfigError::MissingConfig; the `?` on fs::read_to_string and toml::from_str
\* (src/config.rs:57-58) converts the io and toml errors straight into anyhow
\* errors; qbittorrent_password fails with ConfigError::MissingQbPassword; a base
\* URL that does not parse returns ExitCode::Config without classification; the
\* HTTP client may fail to build.
LoadFailures ==
    { [at |-> x[1], err |-> x[2], code |-> ExitCodeOf(classify_error(x[2]))] :
        x \in { << "load_config", Error("Config", {"no configuration file found"}) >>,
                << "load_config", Error("Io", {"read config file"}) >>,
                << "load_config", Error("Toml", {"parse config file"}) >>,
                << "password", Error("Config", {"missing qbittorrent password"}) >>,
                << "client", Error("Other", {"http client"}) >> } }
    \cup { [at |-> "base_url", err |-> Error("Url", {"base url"}),
            code |-> ExitCodeOf("Config")] }

\* run, from Config::load to QbitClient::new (src/main.rs:123-163): local steps,
\* no request is sent.
RunLoadConfig ==
    /\ pc = "load"
    /\ steps' = Append(steps, "load_config")
    /\ \/ /\ pc' = "login"
          /\ UNCHANGED runResult
       \/ \E f \in LoadFailures : RunFails(f.at, f.err, f.code, json)
    /\ UNCHANGED << once, refresh, cancel, health, listenPort, calls, pcpRes, natRes, pcpErr,
                    lifetime, map, applyPort, cycle, cycleErr, update, nextDelay, timerFired,
                    negInFlight, applyInFlight >>
    /\ UNCHANGED << plan, json, exited >>
    /\ UNCHANGED watchVars
    /\ UNCHANGED pureVars

\* QbitClient::login (src/qbit.rs:55-81): the request cannot be sent, the answer
\* is no success status, or the body is not "Ok." (the client rejects the login).
LoginFailures ==
    { Error("Http", {"login request"}),
      Error("UnexpectedResponse", {"login status"}),
      Error("Auth", {"authentication failed"}) }

\* run, `client.login(..).await` (src/main.rs:165-170): one request; an Err
\* returns from run with the classified code.
RunLoginRetries ==
    /\ pc = "login"
    /\ steps' = Append(steps, "login")
    /\ \/ /\ pc' = "resolve"
          /\ UNCHANGED runResult
       \/ \E err \in LoginFailures :
            IF err.kind = "Auth"
            THEN /\ pc' = "login"
                 /\ UNCHANGED runResult
            ELSE RunFails("login", err, ExitCodeOf(classify_error(err)), json)
    /\ UNCHANGED << once, refresh, cancel, health, listenPort, calls, pcpRes, natRes, pcpErr,
                    lifetime, map, applyPort, cycle, cycleErr, update, nextDelay, timerFired,
                    negInFlight, applyInFlight >>
    /\ UNCHANGED << plan, json, exited >>
    /\ UNCHANGED watchVars
    /\ UNCHANGED pureVars
RunLogin ==
    /\ pc = "login"
    /\ steps' = Append(steps, "login")
    /\ \/ /\ pc' = "resolve"
          /\ UNCHANGED runResult
       \/ \E err \in LoginFailures :
            RunFails("login", err, ExitCodeOf(classify_error(err)), json)
    /\ UNCHANGED << once, refresh, cancel, health, listenPort, calls, pcpRes, natRes, pcpErr,
                    lifetime, map, applyPort, cycle, cycleErr, update, nextDelay, timerFired,
                    negInFlight, applyInFlight >>
    /\ UNCHANGED << plan, json, exited >>
    /\ UNCHANGED watchVars
    /\ UNCHANGED pureVars

\* run, `resolve_plan(cli.strategy, &config)` (src/main.rs:218-226), then the
\* branch on cli.once (src/main.rs:228, 264): the plan is handed to run_once or to
\* run_daemon, which starts the watcher task for a File plan. The path probed is
\* the path of the forwarded-port file.
RunResolve ==
    /\ pc = "resolve"
    /\ steps' = Append(steps, "resolve_plan")
    /\ \E st \in StrategyOpts, lx \in BOOLEAN,
          cf \in {None} \cup { Some(q) : q \in PathProbes }, df \in PathProbes :
        LET path == resolved_forwarded_port_path(cf, lx, df)
            r == resolve_plan(st, path, lx)
        IN  /\ IsSome(path) => Unwrap(path).exists = file.exists
            /\ IF r.ok
               THEN /\ plan' = r.plan
                    /\ pc' = IF r.plan = "File" /\ ~once THEN "select" ELSE "cycle"
                    /\ wpc' = IF r.plan = "File" /\ ~once THEN "init" ELSE "off"
                    /\ UNCHANGED runResult
               ELSE /\ RunFails("resolve_plan", r.err, ExitCodeOf(classify_error(r.err)), json)
                    /\ UNCHANGED << plan, wpc >>
    /\ UNCHANGED << once, refresh, cancel, health, listenPort, calls, pcpRes, natRes, pcpErr,
                    lifetime, map, applyPort, cycle, cycleErr, update, nextDelay, timerFired,
                    negInFlight, applyInFlight >>
    /\ UNCHANGED << json, exited >>
    /\ UNCHANGED << chan, lastPort, file, events, writes, watch, emitted >>
    /\ UNCHANGED pureVars

\* run, the match on what run_once or run_daemon returned (src/main.rs:228-286).
\* run_once has ended with the outcome of its cycle; run_daemon returns Ok when
\* its loop left through the cancellation branch, and its loops have no other
\* way out.
RunReturn ==
    /\ runResult = None
    /\ plan \in Plans
    /\ pc = IF once THEN "done" ELSE "stopped"
    /\ runResult' = Some(IF once
                          THEN [ok |-> cycle = "ok",
                                at |-> "run_once",
                                err |-> IF cycle = "ok" THEN None ELSE cycleErr,
                                code |-> RunReport(cycle, update, cycleErr).code,
                                emit_json |-> json,
                                report |->
                                    [detected_port |->
                                        RunReport(cycle, update, cycleErr).detected_port,
                                     applied |-> RunReport(cycle, update, cycleErr).applied,
                                     verified |-> RunReport(cycle, update, cycleErr).verified,
                                     error |-> IF cycle = "ok" THEN None ELSE cycleErr]]
                          ELSE [ok |-> TRUE,
                                at |-> "run_daemon",
                                err |-> None,
                                code |-> ExitCodeOf("Success"),
                                emit_json |-> json,
                                report |-> JsonReport_new])
    /\ UNCHANGED << json, steps, exited >>
    /\ UNCHANGED engineVars
    /\ UNCHANGED watchVars
    /\ UNCHANGED pureVars

\* main (src/main.rs:90-106): print the report as one JSON line when emit_json,
\* then process::exit(exit_code).
MainExit ==
    /\ IsSome(runResult)
    /\ exited = None
    /\ exited' = Some([code |-> Unwrap(runResult).code,
                        lines |-> IF Unwrap(runResult).emit_json THEN 1 ELSE 0])
    /\ UNCHANGED << json, steps, runResult >>
    /\ UNCHANGED engineVars
    /\ UNCHANGED watchVars
    /\ UNCHANGED pureVars

\* The whole run: the steps of `run` before the engine, the engine and its
\* environment, and the return to `main`. The cancellation signal is asked for
\* by the daemon loops only (src/main.rs:406, 468).
RunNext ==
    \/ RunCheckJson
    \/ RunLoadConfig
    \/ RunLogin
    \/ RunResolve
    \/ RunReturn
    \/ MainExit
    \/ NegotiateStart
    \/ PcpReturn
    \/ NatpmpReturn
    \/ PortmapApplyReturn
    \/ OnceApplyReturn
    \/ OnceFileRead
    \/ TimerFire
    \/ (Cancel /\ plan \in Plans)
    \/ SleepCancelled
    \/ SleepElapsed
    \/ FileWrite
    \/ FileAppears
    \/ OtherNotification
    \/ WatcherStart
    \/ WatcherRecv
    \/ WatcherHandle
    \/ FileSelectCancelled
    \/ FileSelectRecv
    \/ FileApplyReturn

RunSpec == RunInit /\ [][RunNext]_vars

\* ------------------------------------------------------------------ pure functions

\* No run is in progress: the variables of the engine and of the watcher while a
\* function is looked at on its own.
NoRun ==
    /\ once = TRUE
    /\ plan = "File"
    /\ refresh = 300
    /\ pc = "idle"
    /\ cancel = FALSE
    /\ health = FALSE
    /\ listenPort = 6881
    /\ calls = << >>
    /\ pcpRes = "none"
    /\ natRes = "none"
    /\ pcpErr = None
    /\ lifetime = None
    /\ map = None
    /\ applyPort = None
    /\ cycle = "none"
    /\ cycleErr = None
    /\ update = None
    /\ nextDelay = 0
    /\ timerFired = FALSE
    /\ negInFlight = 0
    /\ applyInFlight = 0
    /\ chan = << >>
    /\ wpc = "off"
    /\ lastPort = None
    /\ file = [exists |-> FALSE, port |-> None]
    /\ events = << >>
    /\ writes = 0
    /\ watch = "none"
    /\ emitted = << >>
    /\ json = FALSE
    /\ steps = << >>
    /\ runResult = None
    /\ exited = None

ParseInit ==
    /\ NoRun
    /\ call \in { Some([fn |-> "parse_port", contents |-> c]) : c \in Contents }
    /\ ret = None

\* parse_port(contents) is called and returns.
ParsePort ==
    /\ IsSome(call)
    /\ Unwrap(call).fn = "parse_port"
    /\ ret = None
    /\ ret' = Some(parse_port(Unwrap(call).contents))
    /\ UNCHANGED call
    /\ UNCHANGED engineVars
    /\ UNCHANGED watchVars
    /\ UNCHANGED runVars

ParseSpec == ParseInit /\ [][ParsePort]_vars

\* The apply call on its own: set_listen_port is called MaxApplies times in
\* succession on one client, as the daemon loops do (src/main.rs:416-418,
\* 495-497). `ret` is the list of what the calls were given and returned.
ApplyInit ==
    /\ once = FALSE
    /\ plan = "File"
    /\ refresh = 300
    /\ pc = "idle"
    /\ cancel = FALSE
    /\ health = FALSE
    /\ listenPort \in ClientPorts
    /\ calls = << >>
    /\ pcpRes = "none"
    /\ natRes = "none"
    /\ pcpErr = None
    /\ lifetime = None
    /\ map = None
    /\ applyPort = None
    /\ cycle = "none"
    /\ cycleErr = None
    /\ update = None
    /\ nextDelay = 0
    /\ timerFired = FALSE
    /\ negInFlight = 0
    /\ applyInFlight = 0
    /\ chan = << >>
    /\ wpc = "off"
    /\ lastPort = None
    /\ file = [exists |-> FALSE, port |-> None]
    /\ events = << >>
    /\ writes = 0
    /\ watch = "none"
    /\ emitted = << >>
    /\ json = FALSE
    /\ steps = << >>
    /\ runResult = None
    /\ exited = None
    /\ call \in { Some([fn |-> "set_listen_port", bind_interface |-> b]) : b \in BOOLEAN }
    /\ ret = Some(<< >>)

\* client.set_listen_port(port, bind_interface) is called and returns; a request
\* the call does not send has no answer ("none").
SetListenPort ==
    /\ IsSome(call)
    /\ Unwrap(call).fn = "set_listen_port"
    /\ Len(Unwrap(ret)) < MaxApplies
    /\ \E port \in Ports, post \in PostAnswers :
       \E interfaces \in (IF Unwrap(call).bind_interface THEN InterfaceAnswers ELSE {"none"}),
          get \in (IF post \in {"taken", "kept"} THEN GetAnswers ELSE {"none"}) :
        LET r == set_listen_port(port, listenPort, Unwrap(call).bind_interface,
                                 interfaces, post, get)
        IN  /\ listenPort' = r.outcome.listen
            /\ ret' = Some(Append(Unwrap(ret),
                                   [port |-> port, before |-> listenPort, post |-> post,
                                    get |-> get, outcome |-> r.outcome,
                                    requests |-> r.requests]))
    /\ UNCHANGED call
    /\ UNCHANGED << once, plan, refresh, pc, cancel, health, calls, pcpRes, natRes, pcpErr,
                    lifetime, map, applyPort, cycle, cycleErr, update, nextDelay, timerFired,
                    negInFlight, applyInFlight >>
    /\ UNCHANGED watchVars
    /\ UNCHANGED runVars

ApplySpec == ApplyInit /\ [][SetListenPort]_vars

BuildInit ==
    /\ NoRun
    /\ call \in { Some([fn |-> "build_request", protocol |-> q, configured |-> c,
                          autodiscover |-> a, discovered |-> d, internal_port |-> i,
                          drawn |-> w, refresh_secs |-> r]) :
                     q \in PortProtocols, c \in GatewayConfigs, a \in BOOLEAN, d \in BOOLEAN,
                     i \in InternalPorts, w \in EphemeralDraws, r \in RefreshChoices }
    /\ ret = None

\* build_request(config) is called and returns (src/portmap/mod.rs:44, 74, 79).
BuildRequest ==
    /\ IsSome(call)
    /\ Unwrap(call).fn = "build_request"
    /\ ret = None
    /\ LET c == Unwrap(call) IN
        ret' = Some(build_request(c.protocol, c.configured, c.autodiscover, c.discovered,
                                  c.internal_port, c.drawn, c.refresh_secs))
    /\ UNCHANGED call
    /\ UNCHANGED engineVars
    /\ UNCHANGED watchVars
    /\ UNCHANGED runVars

BuildSpec == BuildInit /\ [][BuildRequest]_vars

\* The wire exchange of natpmp::map on its own (src/portmap/natpmp.rs:13-55), run
\* on a blocking thread. `calls` is the log of what it did: the request sent, the
\* responses read, the back-offs slept.
NatpmpInit ==
    /\ NoRun
    /\ call \in { Some([fn |-> "natpmp_exchange", gateway |-> g, refresh_secs |-> r]) :
                     g \in {"v4", "v6", "unusable"}, r \in U64s }
    /\ ret = None

\* What read_response_or_retry can yield: a UDP or TCP mapping response, another
\* response, NATPMP_TRYAGAIN, or any other error.
NatpmpReads == {"mapping_udp", "mapping_tcp", "other", "tryagain", "error"}
NatpmpDefinitive == {"mapping_udp", "mapping_tcp", "error"}

\* The responses read so far.
ReadsDone == Cardinality({ i \in DOMAIN calls : calls[i].op = "read" })

\* src/portmap/natpmp.rs:15-38: an IPv6 gateway and a client that cannot be created
\* fail before anything is sent; then send_port_mapping_request is called once.
NatSend ==
    /\ pc = "idle"
    /\ IsSome(call)
    /\ Unwrap(call).fn = "natpmp_exchange"
    /\ IF Unwrap(call).gateway # "v4"
       THEN /\ ret' = Some([ok |-> FALSE, err |-> Error("NatPmp", {"natpmp"})])
            /\ pc' = "returned"
            /\ UNCHANGED calls
       ELSE /\ calls' = << [op |-> "send",
                             lifetime |-> requested_lifetime(Unwrap(call).refresh_secs)] >>
            /\ \/ /\ pc' = "read"
                  /\ UNCHANGED ret
               \/ /\ ret' = Some([ok |-> FALSE, err |-> Error("NatPmp", {"natpmp"})])
                  /\ pc' = "returned"
    /\ UNCHANGED call
    /\ UNCHANGED << once, plan, refresh, cancel, health, listenPort, pcpRes, natRes, pcpErr,
                    lifetime, map, applyPort, cycle, cycleErr, update, nextDelay, timerFired,
                    negInFlight, applyInFlight >>
    /\ UNCHANGED watchVars
    /\ UNCHANGED runVars

\* src/portmap/natpmp.rs:40-52, one turn of the loop: read_response_or_retry and
\* the match on it. The gateway answers definitively on read MaxReads + 1 at the
\* latest.
NatReadResends ==
    /\ pc = "read"
    /\ \E answer \in (IF ReadsDone < MaxReads THEN NatpmpReads ELSE NatpmpDefinitive) :
        /\ calls' = IF answer = "other"
                     THEN calls \o << [op |-> "read", answer |-> answer],
                                      [op |-> "send",
                                       lifetime |-> requested_lifetime(Unwrap(call).refresh_secs)] >>
                     ELSE Append(calls, [op |-> "read", answer |-> answer])
        /\ CASE answer \in {"mapping_udp", "mapping_tcp"} ->
                    /\ ret' = Some([ok |-> TRUE])
                    /\ pc' = "returned"
             [] answer = "other" ->
                    /\ pc' = "read"
                    /\ UNCHANGED ret
             [] answer = "tryagain" ->
                    /\ pc' = "backoff"
                    /\ UNCHANGED ret
             [] answer = "error" ->
                    /\ ret' = Some([ok |-> FALSE, err |-> Error("NatPmp", {"natpmp"})])
                    /\ pc' = "returned"
    /\ UNCHANGED call
    /\ UNCHANGED << once, plan, refresh, cancel, health, listenPort, pcpRes, natRes, pcpErr,
                    lifetime, map, applyPort, cycle, cycleErr, update, nextDelay, timerFired,
                    negInFlight, applyInFlight >>
    /\ UNCHANGED watchVars
    /\ UNCHANGED runVars
NatRead ==
    /\ pc = "read"
    /\ \E answer \in (IF ReadsDone < MaxReads THEN NatpmpReads ELSE NatpmpDefinitive) :
        /\ calls' = Append(calls, [op |-> "read", answer |-> answer])
        /\ CASE answer \in {"mapping_udp", "mapping_tcp"} ->
                    /\ ret' = Some([ok |-> TRUE])
                    /\ pc' = "returned"
             [] answer = "other" ->
                    /\ pc' = "read"
                    /\ UNCHANGED ret
             [] answer = "tryagain" ->
                    /\ pc' = "backoff"
                    /\ UNCHANGED ret
             [] answer = "error" ->
                    /\ ret' = Some([ok |-> FALSE, err |-> Error("NatPmp", {"natpmp"})])
                    /\ pc' = "returned"
    /\ UNCHANGED call
    /\ UNCHANGED << once, plan, refresh, cancel, health, listenPort, pcpRes, natRes, pcpErr,
                    lifetime, map, applyPort, cycle, cycleErr, update, nextDelay, timerFired,
                    negInFlight, applyInFlight >>
    /\ UNCHANGED watchVars
    /\ UNCHANGED runVars

\* src/portmap/natpmp.rs:47-50: `thread::sleep(Duration::from_millis(250))`, then
\* `continue`.
NatBackoff ==
    /\ pc = "backoff"
    /\ calls' = Append(calls, [op |-> "sleep", ms |-> 250])
    /\ pc' = "read"
    /\ UNCHANGED << call, ret >>
    /\ UNCHANGED << once, plan, refresh, cancel, health, listenPort, pcpRes, natRes, pcpErr,
                    lifetime, map, applyPort, cycle, cycleErr, update, nextDelay, timerFired,
                    negInFlight, applyInFlight >>
    /\ UNCHANGED watchVars
    /\ UNCHANGED runVars

NatpmpNext ==
    \/ NatSend
    \/ NatRead
    \/ NatBackoff

\* The exchange runs on its own thread (task::spawn_blocking), which keeps going.
NatpmpSpec == NatpmpInit /\ [][NatpmpNext]_vars /\ WF_vars(NatpmpNext)

AttemptInit ==
    /\ NoRun
    /\ call \in { Some([fn |-> "try_pcp", feature |-> f, protocol |-> q, clientAddr |-> a,
                          response |-> r]) :
                     f \in BOOLEAN, q \in PortProtocols, a \in BOOLEAN, r \in PcpResponses }
               \cup { Some([fn |-> "natpmp::map", protocol |-> q, response |-> r]) :
                        q \in PortProtocols, r \in NatpmpResponses }
    /\ ret = None

\* try_pcp(&request) is called and returns (src/portmap/mod.rs:46, 75).
TryPcp ==
    /\ IsSome(call)
    /\ Unwrap(call).fn = "try_pcp"
    /\ ret = None
    /\ LET c == Unwrap(call) IN
        ret' = Some(try_pcp(c.feature, c.protocol, c.clientAddr, c.response))
    /\ UNCHANGED call
    /\ UNCHANGED engineVars
    /\ UNCHANGED watchVars
    /\ UNCHANGED runVars

\* natpmp::map(request) is called and returns (src/portmap/mod.rs:107-109).
NatpmpMap ==
    /\ IsSome(call)
    /\ Unwrap(call).fn = "natpmp::map"
    /\ ret = None
    /\ LET c == Unwrap(call) IN
        ret' = Some(natpmp_map(c.protocol, c.response))
    /\ UNCHANGED call
    /\ UNCHANGED engineVars
    /\ UNCHANGED watchVars
    /\ UNCHANGED runVars

AttemptNext ==
    \/ TryPcp
    \/ NatpmpMap

AttemptSpec == AttemptInit /\ [][AttemptNext]_vars

ResolveInit ==
    /\ NoRun
    /\ call \in { Some([fn |-> "resolve_plan", strategy |-> st, linux |-> lx,
                          configured |-> cf, default |-> df]) :
                     st \in StrategyOpts, lx \in BOOLEAN,
                     cf \in {None} \cup { Some(q) : q \in PathProbes },
                     df \in PathProbes }
    /\ ret = None

\* run calls resolve_plan(cli.strategy, &config) (src/main.rs:218-226).
ResolvePlan ==
    /\ IsSome(call)
    /\ Unwrap(call).fn = "resolve_plan"
    /\ ret = None
    /\ LET c == Unwrap(call) IN
        ret' = Some(resolve_plan(c.strategy,
                                 resolved_forwarded_port_path(c.configured, c.linux, c.default),
                                 c.linux))
    /\ UNCHANGED call
    /\ UNCHANGED engineVars
    /\ UNCHANGED watchVars
    /\ UNCHANGED runVars

ResolveSpec == ResolveInit /\ [][ResolvePlan]_vars

TypeOK ==
    /\ once \in BOOLEAN
    /\ plan \in Plans
    /\ refresh \in RefreshChoices
    /\ pc \in {"cycle", "pcp", "natpmp", "apply", "sleep", "select", "stopped", "done"}
    /\ cancel \in BOOLEAN
    /\ health \in BOOLEAN
    /\ listenPort \in ClientPorts
    /\ negInFlight \in Nat
    /\ applyInFlight \in Nat
    /\ Len(chan) <= ChannelCapacity
    /\ wpc \in {"off", "init", "wait", "debounce", "ended"}
    /\ file \in FileStates
    /\ writes \in 0..MaxWrites
    /\ watch \in {"none", "file", "dir", "lost"}
    /\ emitted \in Seq(Ports)
    /\ call = None
    /\ ret = None


\* ------------------------------------------------------------------ claims

PortmapDaemon == ~once /\ plan \in PortmapModes
FileDaemon == ~once /\ plan = "File"

\* The portmap daemon sleeps after a cycle whose negotiation and apply both succeeded.
AfterSuccessfulCycle == PortmapDaemon /\ pc = "sleep" /\ cycle = "ok"

\* C1: in Auto mode the attempts of a cycle are PCP first and NAT-PMP, if at all,
\* second; NAT-PMP has been attempted exactly when the PCP attempt of the cycle
\* failed; a mapping obtained after a PCP failure is tagged NatPmp (label "natpmp"),
\* and after a PCP success the mapping is tagged Pcp (label "pcp") and the cycle
\* holds no NAT-PMP attempt.
C1_AutoFallbackOrder ==
    plan = "Auto" =>
        /\ calls \in { << >>, << "pcp" >>, << "pcp", "natpmp" >> }
        /\ (pc = "pcp" => calls = << "pcp" >>)
        /\ (pc = "natpmp" => calls = << "pcp", "natpmp" >>)
        /\ ("natpmp" \in { calls[i] : i \in 1..Len(calls) }) <=> (pcpRes = "err")
        /\ (natRes # "none" => pcpRes = "err")
        /\ (pcpRes = "ok" =>
                /\ calls = << "pcp" >>
                /\ IsSome(map)
                /\ Unwrap(map).strategy = "Pcp"
                /\ map_strategy_label(plan, Unwrap(map).strategy) = "pcp")
        /\ (pcpRes = "err" /\ natRes = "ok" =>
                /\ IsSome(map)
                /\ Unwrap(map).strategy = "NatPmp"
                /\ map_strategy_label(plan, Unwrap(map).strategy) = "natpmp")

\* C1 witness: an Auto cycle whose PCP attempt failed holds a NAT-PMP mapping that
\* is being applied.
C1_Witness ==
    /\ plan = "Auto"
    /\ pc = "apply"
    /\ pcpRes = "err"
    /\ natRes = "ok"
    /\ calls = << "pcp", "natpmp" >>
    /\ Unwrap(map).strategy = "NatPmp"

\* C2 (as claimed): when both attempts of an Auto cycle fail, the error of the cycle
\* carries the PCP failure message and the NAT-PMP failure message.
C2_CombinedError ==
    (plan = "Auto" /\ pcpRes = "err" /\ natRes = "err" /\ cycle = "err") =>
        /\ IsSome(cycleErr)
        /\ {"pcp", "natpmp"} \subseteq Unwrap(cycleErr).msgs

\* C3: after a successful portmap daemon cycle whose gateway lifetime was L seconds,
\* the delay is max(L/2, 10 s) for L > 0 (so exactly L/2 from 20 s on), and for
\* L = 0 the mapping has no lease and the delay is the refresh interval.
C3_LeaseDelay ==
    AfterSuccessfulCycle =>
        LET L == Unwrap(lifetime) IN
        /\ IsSome(lifetime)
        /\ (L > 0 => 2 * nextDelay = Max(L * 1000, 20000))
        /\ (L >= 20 => 2 * nextDelay = L * 1000)
        /\ (L = 0 => Unwrap(map).ttl = None /\ nextDelay = refresh * 1000)

\* C3 witness: a lease of 21 s gave a delay of 10.5 s.
C3_Witness ==
    /\ AfterSuccessfulCycle
    /\ lifetime = Some(21)
    /\ nextDelay = 10500

\* C4 (as claimed): for a lease below 20 s, or none, the delay after a successful
\* cycle is the refresh interval and is at least 10 s.
C4_ShortLeaseUsesRefresh ==
    (AfterSuccessfulCycle /\ Unwrap(lifetime) < 20) =>
        /\ nextDelay = refresh * 1000
        /\ nextDelay >= 10000

\* C4 (amended): for a lease 0 < L < 20 s the delay after a successful cycle is the
\* 10 s floor, whatever the refresh interval; for an absent lease it is the refresh
\* interval itself, with no floor applied to it.
C4_ShortLeaseDelay ==
    AfterSuccessfulCycle =>
        LET L == Unwrap(lifetime) IN
        /\ (0 < L /\ L < 20 => nextDelay = 10000)
        /\ (L = 0 => nextDelay = refresh * 1000)

\* C4 witness: no lease and a refresh interval of 7 s gave a delay of 7 s.
C4_Witness ==
    /\ AfterSuccessfulCycle
    /\ lifetime = Some(0)
    /\ refresh = 7
    /\ nextDelay = 7000

\* C5: in the portmap daemon a failed cycle leaves the daemon sleeping, unhealthy,
\* for the refresh interval (whatever lease the negotiation returned); no step of a
\* cycle leaves the loop; the next cycle starts only once the sleep has elapsed;
\* and the loop returns only from its sleep, on the cancellation signal.
C5_FailedCycleRetries ==
    /\ [](PortmapDaemon =>
            /\ pc \in {"cycle", "pcp", "natpmp", "apply", "sleep", "stopped"}
            /\ (pc = "sleep" /\ cycle = "err" => ~health /\ nextDelay = refresh * 1000)
            /\ (pc = "stopped" => cancel))
    /\ [][(PortmapDaemon /\ pc \in {"cycle", "pcp", "natpmp", "apply"})
            => pc' \in {"cycle", "pcp", "natpmp", "apply", "sleep"}]_vars
    /\ [][(PortmapDaemon /\ pc = "sleep" /\ pc' = "cycle") => timerFired]_vars
    /\ [][(PortmapDaemon /\ pc # "stopped" /\ pc' = "stopped") => pc = "sleep" /\ cancel]_vars

\* C5 witness: the apply of a cycle failed after a lease was negotiated, and the
\* daemon sleeps for the refresh interval, which is not the lease-derived delay.
C5_Witness ==
    /\ PortmapDaemon
    /\ pc = "sleep"
    /\ cycle = "err"
    /\ Unwrap(cycleErr).kind = "Qbit"
    /\ IsSome(map)
    /\ IsSome(Unwrap(map).ttl)
    /\ nextDelay = refresh * 1000
    /\ nextDelay # LeaseDelay(Unwrap(map).ttl, refresh)
    /\ ~health


\* A step that sends a negotiation request or starts an apply call.
StartsCall ==
    \/ negInFlight' > negInFlight
    \/ applyInFlight' > applyInFlight
    \/ (pc = "pcp" /\ pc' = "natpmp")

\* The daemon waits and nothing but the cancellation can wake it: the sleep has
\* not elapsed, or the channel holds no port.
Waiting ==
    \/ (PortmapDaemon /\ pc = "sleep" /\ ~timerFired)
    \/ (FileDaemon /\ pc = "select" /\ chan = << >>)

C8_CancellationWins ==
    /\ [][cancel => ~StartsCall]_vars
    /\ [][(cancel /\ pc \in {"sleep", "select"}) => pc' \in {pc, "stopped"}]_vars

\* C9: a daemon that waits with the signal delivered can stop at once, although
\* the sleep has not elapsed and no port has arrived, and stopping is the only
\* step it can take; a daemon stops only from its wait, on the signal, with no
\* call in flight; and single-shot runs never reach Stopped.
C9_CancelEndsWait ==
    /\ [](Waiting /\ cancel => ENABLED (SleepCancelled \/ FileSelectCancelled))
    /\ [][(Waiting /\ cancel /\ pc' # pc) => pc' = "stopped"]_vars
    /\ [][(pc # "stopped" /\ pc' = "stopped") =>
            /\ ~once
            /\ cancel
            /\ pc \in {"sleep", "select"}
            /\ negInFlight = 0
            /\ applyInFlight = 0
            /\ ~StartsCall]_vars
    /\ [](pc = "stopped" => cancel /\ ~once)

\* C9 witness: a portmap daemon stopped out of a sleep of 300 s that had not elapsed.
C9_Witness ==
    /\ PortmapDaemon
    /\ pc = "stopped"
    /\ cancel
    /\ nextDelay = 300000
    /\ ~timerFired

\* C10: at most one negotiation and at most one apply call are in flight, never
\* both, in every mode; the counts are those of the engine's position.
C10_OneCallInFlight ==
    /\ negInFlight \in {0, 1}
    /\ applyInFlight \in {0, 1}
    /\ negInFlight + applyInFlight <= 1
    /\ (negInFlight = 1 <=> pc \in {"pcp", "natpmp"})
    /\ (applyInFlight = 1 <=> pc = "apply")

\* C10 witness: an apply call of the file daemon is in flight while the watcher
\* has already queued the next port.
C10_Witness ==
    /\ FileDaemon
    /\ applyInFlight = 1
    /\ chan # << >>

\* The daemon is between cycles: the portmap daemon sleeps, the file daemon is back
\* at its select after an apply attempt.
BetweenCycles ==
    /\ ~once
    /\ cycle # "none"
    /\ pc \in {"sleep", "select"}

\* C11 (as claimed): whenever a daemon is between cycles the health flag is true
\* exactly when the most recent cycle's apply call succeeded, verified or not, and
\* false when that cycle failed; /healthz answers 200 exactly when the flag is
\* true and 503 otherwise.
C11_HealthFollowsApply ==
    /\ healthz(health) \in {200, 503}
    /\ (healthz(health) = 200 <=> health)
    /\ (BetweenCycles => (health <=> cycle = "ok"))
    /\ (BetweenCycles /\ cycle = "ok" /\ ~Unwrap(update).verified => health)

\* C12: an apply call that returned has verified = false exactly when the client
\* reported a port other than the requested one, and such a return is a success:
\* the portmap daemon goes to sleep with the cycle not failed and the lease-derived
\* delay (max(L/2, 10 s), or the refresh interval without a lease); a single-shot
\* run ends with applied = true, verified = false and exit code 0.
C12_MismatchIsNotFailure ==
    /\ [](pc # "apply" /\ IsSome(update) =>
            (Unwrap(update).verified <=> Unwrap(update).detected_port = Unwrap(applyPort)))
    /\ [][(PortmapDaemon /\ pc = "apply" /\ pc' # "apply" /\ IsSome(update')
            /\ Unwrap(update').detected_port # Unwrap(applyPort)) =>
            /\ ~Unwrap(update').verified
            /\ cycle' = "ok"
            /\ cycleErr' = None
            /\ pc' = "sleep"
            /\ LET L == Unwrap(lifetime) IN
                /\ (L > 0 => 2 * nextDelay' = Max(L * 1000, 20000))
                /\ (L = 0 => nextDelay' = refresh * 1000)]_vars
    /\ [](once /\ pc = "done" /\ IsSome(update)
            /\ Unwrap(update).detected_port # Unwrap(applyPort) =>
            LET report == RunReport(cycle, update, cycleErr) IN
            /\ cycle = "ok"
            /\ report.applied
            /\ ~report.verified
            /\ report.detected_port = Some(listenPort)
            /\ report.code = 0)

\* C12 witness: the portmap daemon sleeps for the lease-derived 10.5 s, not for the
\* refresh interval of 300 s, after an apply the client did not follow.
C12_Witness ==
    /\ PortmapDaemon
    /\ pc = "sleep"
    /\ cycle = "ok"
    /\ IsSome(update)
    /\ ~Unwrap(update).verified
    /\ listenPort # Unwrap(applyPort)
    /\ refresh = 300
    /\ nextDelay = 10500

\* The last element of a non-empty sequence, as an Option.
LastOf(seq) == IF seq = << >> THEN None ELSE Some(seq[Len(seq)])

\* How often v occurs in seq.
CountOf(v, seq) == Cardinality({ i \in DOMAIN seq : seq[i] = v })

\* The watcher has handled every notification it was sent.
WatcherQuiet == wpc = "wait" /\ events = << >>

\* C13: no two consecutive emissions of the watcher carry the same port, the
\* initial emission included; last_port is the port emitted last; and every
\* emission is put into the channel (or dropped) as it is recorded.
C13_NoRepeatedEmission ==
    /\ \A i \in 1..(Len(emitted) - 1) : emitted[i] # emitted[i + 1]
    /\ lastPort = LastOf(emitted)
    /\ Len(chan) <= Len(emitted)
    /\ \A i \in 1..Len(chan) : chan[i] = emitted[Len(emitted) - Len(chan) + i]

\* C13 witness: the file was written more often than the watcher emitted, and the
\* watcher emitted three times, going back to a port it had emitted before.
C13_Witness ==
    /\ FileDaemon
    /\ WatcherQuiet
    /\ Len(emitted) = 3
    /\ emitted[1] = emitted[3]
    /\ writes >= 3

\* C14: during a burst of writes of one port v, which the watcher had not emitted
\* last when the burst began, v is emitted at most once; once the watcher has
\* handled its notifications v has been emitted exactly once, as the last
\* emission; and under fair scheduling that emission comes, unless the watch could
\* not be registered or the daemon stops first.
C14_BurstEmitsOnce ==
    /\ [](writes >= 1 =>
            LET v == Unwrap(file.port) IN
            /\ CountOf(v, emitted) <= 1
            /\ (WatcherQuiet =>
                    /\ CountOf(v, emitted) = 1
                    /\ LastOf(emitted) = Some(v)
                    /\ lastPort = Some(v)))
    /\ (writes >= 1) ~>
            (\/ CountOf(Unwrap(file.port), emitted) = 1
             \/ wpc = "ended"
             \/ pc = "stopped")

\* C14 witness: three writes of 51413 over a file that held 51820 have been
\* handled and 51413 was emitted once.
C14_Witness ==
    /\ writes = 3
    /\ WatcherQuiet
    /\ file.port = Some(51413)
    /\ emitted = << 51820, 51413 >>
    /\ watch = "file"

\* The forwarded-port file reads and parses.
FileReadable == file.exists /\ IsSome(file.port)

\* C15: until the watcher has started nothing is emitted and no notification is
\* queued or handled; the step that starts it over a file that reads and parses
\* emits that port as the first emission and records it as last_port, consuming no
\* notification; and the handling of a notification that finds the port recorded
\* as last_port emits nothing.
C15_InitialEmission ==
    /\ [](wpc = "init" => emitted = << >> /\ lastPort = None /\ events = << >>)
    /\ [][(wpc = "init" /\ wpc' = "wait" /\ FileReadable) =>
            /\ emitted' = << Unwrap(file.port) >>
            /\ lastPort' = file.port
            /\ chan' = Append(chan, Unwrap(file.port))
            /\ events' = events]_vars
    /\ [][(wpc = "debounce" /\ wpc' # "debounce" /\ FileReadable /\ file.port = lastPort) =>
            /\ emitted' = emitted
            /\ lastPort' = lastPort
            /\ chan' = chan]_vars

\* C15 witness: the watcher emitted the port it found at startup and now handles a
\* notification over a file that still holds that port.
C15_Witness ==
    /\ wpc = "debounce"
    /\ watch = "file"
    /\ FileReadable
    /\ emitted = << Unwrap(file.port) >>
    /\ lastPort = file.port

\* C16: the handling of a notification that finds the file missing, unreadable or
\* unparsable leaves the watcher waiting for the next notification, with nothing
\* emitted and last_port as it was; a watcher that has entered its loop never
\* ends on its own; and the handling of a notification that finds a port other
\* than last_port emits it and records it.
C16_RereadFailureTolerated ==
    /\ [][(wpc = "debounce" /\ wpc' # "debounce" /\ ~FileReadable) =>
            /\ wpc' = "wait"
            /\ emitted' = emitted
            /\ lastPort' = lastPort
            /\ chan' = chan]_vars
    /\ [][(wpc = "wait" \/ wpc = "debounce") => (wpc' = "wait" \/ wpc' = "debounce")]_vars
    /\ [][(wpc = "debounce" /\ wpc' # "debounce" /\ FileReadable /\ file.port # lastPort) =>
            /\ wpc' = "wait"
            /\ emitted' = Append(emitted, Unwrap(file.port))
            /\ lastPort' = file.port]_vars

\* C16 witness: the watcher, started without a file, emitted 51413 when the file
\* appeared, then handled the notification of a write that left the file
\* unparsable, and waits with last_port still 51413.
C16_Witness ==
    /\ WatcherQuiet
    /\ watch = "dir"
    /\ file.exists
    /\ file.port = None
    /\ emitted = << 51413 >>
    /\ lastPort = Some(51413)

\* C17 (as claimed): the watch is never registered on the file itself, only on
\* its parent directory; and while the watcher runs, a port the file holds (after
\* having been deleted and recreated, say) is eventually the port emitted last,
\* unless the file changes again or the daemon stops.
C17_WatchesParentDirectory ==
    /\ [](watch \in {"none", "dir"})
    /\ \A p \in Ports :
        ((wpc = "wait" \/ wpc = "debounce") /\ file.exists /\ file.port = Some(p))
            ~> (lastPort = Some(p) \/ file.port # Some(p) \/ pc = "stopped")

\* The contents between the first and the last character that is no whitespace.
Trimmed(s) ==
    LET solid == { i \in DOMAIN s : s[i] \notin Whitespace } IN
    IF solid = {} THEN << >>
    ELSE SubSeq(s, CHOOSE i \in solid : \A j \in solid : i <= j,
                   CHOOSE i \in solid : \A j \in solid : j <= i)

AllDigits(t) == t # << >> /\ \A i \in DOMAIN t : IsDigit(t[i])

RECURSIVE Pow10(_)
Pow10(k) == IF k = 0 THEN 1 ELSE 10 * Pow10(k - 1)

RECURSIVE SumTo(_, _)
SumTo(t, k) ==
    IF k = 0 THEN 0 ELSE SumTo(t, k - 1) + DigitValue(t[k]) * Pow10(Len(t) - k)

\* The integer a string of digits denotes.
ValueOf(t) == SumTo(t, Len(t))

\* The plain decimal representation of an integer: digits only, no sign.
PlainDecimal(t) == AllDigits(t)

\* An unsigned decimal literal as str::parse takes it: digits, after at most one "+".
Unsigned(t) == IF t # << >> /\ Head(t) = "+" THEN Tail(t) ELSE t

\* C18 (as claimed): parse_port returns n exactly when the trimmed contents are
\* the plain decimal representation of an n in 0..65535, and fails on everything
\* else, signed contents included.
C18_ParsePortPlainDecimal ==
    IsSome(ret) =>
        LET t == Trimmed(Unwrap(call).contents) IN
        Unwrap(ret) = IF PlainDecimal(t) /\ ValueOf(t) <= 65535
                      THEN Some(ValueOf(t))
                      ELSE None

\* C18 (amended): parse_port returns n exactly when the trimmed contents are one
\* or more decimal digits, leading zeros allowed, after at most one leading "+",
\* and their value n is at most 65535; it fails on everything else: empty or
\* blank contents, a lone sign, a "-" sign, any other character, inner
\* whitespace, a value above 65535.
C18_ParsePortUnsignedLiteral ==
    IsSome(ret) =>
        LET t == Trimmed(Unwrap(call).contents)
            d == Unsigned(t)
        IN  Unwrap(ret) = IF AllDigits(d) /\ ValueOf(d) <= 65535
                          THEN Some(ValueOf(d))
                          ELSE None

\* C18 witness: " +65535" between whitespace parsed to 65535.
C18_Witness ==
    /\ IsSome(ret)
    /\ Unwrap(call).contents = << " ", "+", "6", "5", "5", "3", "5", "\n", " " >>
    /\ Unwrap(ret) = Some(65535)

\* The path resolve_plan looked at in the call under examination.
CallPath ==
    LET c == Unwrap(call) IN resolved_forwarded_port_path(c.configured, c.linux, c.default)

\* C19 (as claimed): with Auto requested the plan is File exactly when the
\* resolved file exists or its parent directory exists, and is Mapping{Auto}
\* otherwise.
C19_AutoPrefersFile ==
    (IsSome(ret) /\ Unwrap(call).strategy = "Auto") =>
        LET r == Unwrap(ret) IN
        IF IsSome(CallPath) /\ (Unwrap(CallPath).exists \/ Unwrap(CallPath).parent = "present")
        THEN r.ok /\ r.plan = "File"
        ELSE r.ok /\ r.plan = "Auto"

\* C19 (amended): with Auto requested on a Linux build, the plan is File whenever
\* the parent directory of the resolved path exists, the file existing or not;
\* resolution fails with a ConfigError when the file exists but its parent
\* directory does not; the plan is Mapping{Auto} when neither exists. On any
\* other build Auto yields Mapping{Auto} whatever the filesystem holds.
C19_AutoResolution ==
    (IsSome(ret) /\ Unwrap(call).strategy = "Auto") =>
        LET r == Unwrap(ret) IN
        IF ~Unwrap(call).linux
        THEN r = [ok |-> TRUE, plan |-> "Auto"]
        ELSE LET q == Unwrap(CallPath) IN
             /\ (q.parent = "present" => r.ok /\ r.plan = "File" /\ r.path = q)
             /\ (q.parent # "present" /\ q.exists => ~r.ok /\ r.err.kind = "Config")
             /\ (q.parent # "present" /\ ~q.exists => r = [ok |-> TRUE, plan |-> "Auto"])

\* C19 witness: on Linux, Auto over a missing file in an existing directory
\* resolved to File.
C19_Witness ==
    /\ IsSome(ret)
    /\ Unwrap(call).strategy = "Auto"
    /\ Unwrap(call).linux
    /\ CallPath = Some([exists |-> FALSE, parent |-> "present"])
    /\ Unwrap(ret).ok
    /\ Unwrap(ret).plan = "File"

\* C20: with File requested and a path resolved, the result is File{path} when
\* the parent directory exists, whether or not the file does, and otherwise a
\* ConfigError, which classify_error maps to exit code 2; with Pcp or Natpmp
\* requested the result is the matching portmap plan whatever the filesystem
\* holds.
C20_FileNeedsParentDirectory ==
    IsSome(ret) =>
        LET c == Unwrap(call)
            r == Unwrap(ret)
        IN  /\ (c.strategy = "File" /\ IsSome(CallPath) =>
                    IF Unwrap(CallPath).parent = "present"
                    THEN r.ok /\ r.plan = "File" /\ r.path = Unwrap(CallPath)
                    ELSE /\ ~r.ok
                         /\ r.err.kind = "Config"
                         /\ ExitCodeOf(classify_error(r.err)) = 2)
            /\ (c.strategy = "Pcp" => r = [ok |-> TRUE, plan |-> "PcpOnly"])
            /\ (c.strategy = "Natpmp" => r = [ok |-> TRUE, plan |-> "NatOnly"])

\* C20 witness: File was requested for a path whose parent directory is missing,
\* and resolution failed with a ConfigError.
C20_Witness ==
    /\ IsSome(ret)
    /\ Unwrap(call).strategy = "File"
    /\ CallPath = Some([exists |-> FALSE, parent |-> "missing"])
    /\ ~Unwrap(ret).ok
    /\ Unwrap(ret).err.kind = "Config"

\* C21: the plan chosen before the daemon loop starts never changes. A daemon in a
\* mapping mode never runs the watcher, never registers a watch and never reads or
\* emits a port from the forwarded-port file, also once that file has appeared;
\* a daemon in file mode never starts a negotiation.
C21_PlanIsFixed ==
    /\ [][plan' = plan /\ once' = once]_vars
    /\ [](PortmapDaemon =>
            /\ wpc = "off"
            /\ watch = "none"
            /\ events = << >>
            /\ chan = << >>
            /\ emitted = << >>
            /\ lastPort = None
            /\ pc # "select")
    /\ [](FileDaemon =>
            /\ calls = << >>
            /\ negInFlight = 0
            /\ pcpRes = "none"
            /\ natRes = "none"
            /\ map = None
            /\ pc \notin {"cycle", "pcp", "natpmp", "sleep"})

\* The file appeared while the mapping daemon ran, and the daemon is negotiating
\* in a later cycle.
C21_Witness ==
    /\ PortmapDaemon
    /\ writes = 1
    /\ file.exists
    /\ IsSome(file.port)
    /\ cycle # "none"
    /\ pc \in {"pcp", "natpmp"}

SingleProtocol == plan \in {"PcpOnly", "NatOnly"}
GatewayFailure == IsSome(cycleErr) /\ Unwrap(cycleErr).kind = "Gateway"

\* C22: in PcpOnly mode a cycle contacts PCP only and in NatOnly mode NAT-PMP only,
\* once, whether the attempt succeeds or fails; a finished cycle that found a
\* gateway address has made exactly one attempt.
C22_SingleProtocolAttempt ==
    /\ plan = "PcpOnly" =>
            /\ calls \in { << >>, << "pcp" >> }
            /\ natRes = "none"
            /\ pc # "natpmp"
            /\ (IsSome(map) => Unwrap(map).strategy = PcpStrategy)
    /\ plan = "NatOnly" =>
            /\ calls \in { << >>, << "natpmp" >> }
            /\ pcpRes = "none"
            /\ pcpErr = None
            /\ pc # "pcp"
            /\ (IsSome(map) => Unwrap(map).strategy = "NatPmp")
    /\ SingleProtocol => negInFlight <= 1
    /\ (SingleProtocol /\ pc = "apply") => Len(calls) = 1
    /\ (SingleProtocol /\ pc \in {"sleep", "done"}) => (Len(calls) = 1 <=> ~GatewayFailure)

\* A PcpOnly cycle whose one attempt failed has ended without contacting NAT-PMP.
C22_Witness ==
    /\ plan = "PcpOnly"
    /\ pc \in {"sleep", "done"}
    /\ pcpRes = "err"
    /\ cycle = "err"
    /\ calls = << "pcp" >>

\* C23: a cycle that fails for want of a gateway address (none configured and
\* discovery disabled or failing, or a configured address that does not parse) has
\* made no PCP and no NAT-PMP attempt: the step that fails it sends nothing, and
\* the finished cycle records no attempt, no mapping and no apply call.
C23_NoGatewayNoAttempt ==
    /\ []((GatewayFailure /\ pc \in {"sleep", "done"}) =>
            /\ calls = << >>
            /\ pcpRes = "none"
            /\ natRes = "none"
            /\ negInFlight = 0
            /\ applyInFlight = 0
            /\ map = None)
    /\ [][(pc = "cycle" /\ plan \in PortmapModes /\ pc' \in {"sleep", "done"}) =>
            /\ cycleErr' # None
            /\ Unwrap(cycleErr').kind = "Gateway"
            /\ calls' = << >>
            /\ negInFlight' = negInFlight
            /\ applyInFlight' = applyInFlight]_vars

\* A cycle of the Auto chain has failed because discovery is disabled and no
\* gateway is configured.
C23_Witness ==
    /\ plan = "Auto"
    /\ pc \in {"sleep", "done"}
    /\ cycle = "err"
    /\ cycleErr = Some(Error("Gateway", {"gateway discovery disabled and no gateway configured"}))
    /\ calls = << >>

\* C24: a failure to obtain a gateway address is a fatal configuration error: a
\* single-shot run that ends with it exits with code 2, and a daemon whose cycle
\* ended with it starts no further cycle.
C24_GatewayFailureIsFatal ==
    /\ (once /\ pc = "done" /\ GatewayFailure) =>
            RunReport(cycle, update, cycleErr).code = ExitCodeOf("Config")
    /\ (PortmapDaemon /\ GatewayFailure) => pc \notin {"cycle", "pcp", "natpmp", "apply"}

Returned(fn) == IsSome(call) /\ Unwrap(call).fn = fn /\ IsSome(ret)

\* C25: a PCP attempt whose request was answered with the unsupported-version
\* result fails with PcpNotSupported, and one that met any other protocol-level
\* error (another error result, no answer) fails with Pcp: the error type tells
\* the two apart.
C25_PcpErrorsDistinct ==
    (/\ Returned("try_pcp")
     /\ Unwrap(call).feature
     /\ Unwrap(call).clientAddr
     /\ Unwrap(call).response.kind # "mapping") =>
        /\ ~Unwrap(ret).result.ok
        /\ Unwrap(ret).result.err.kind =
               IF Unwrap(call).response.kind = "unsupported_version"
               THEN "PcpNotSupported"
               ELSE "Pcp"

\* C30: an attempt of either protocol that sends a request sends it as UDP when
\* UDP is configured and as TCP when TCP or BOTH is; when BOTH is configured the
\* attempt logs a warning, whether it succeeds or fails.
C30_BothWarnsOnEveryAttempt ==
    ((Returned("try_pcp") \/ Returned("natpmp::map")) /\ Unwrap(ret).wire # << >>) =>
        /\ Unwrap(ret).wire = << IF Unwrap(call).protocol = "UDP" THEN "udp" ELSE "tcp" >>
        /\ (Unwrap(call).protocol = "BOTH" => Unwrap(ret).warnings >= 1)
        /\ (Unwrap(call).protocol # "BOTH" => Unwrap(ret).warnings = 0)

NoEngineCall ==
    /\ calls = << >>
    /\ negInFlight = 0
    /\ applyInFlight = 0
    /\ applyPort = None
    /\ map = None
    /\ update = None
    /\ listenPort = 6881
    /\ wpc = "off"

FailedAt(at) == IsSome(runResult) /\ ~Unwrap(runResult).ok /\ Unwrap(runResult).at = at

\* C26: a run sends at most one login request, and none once the plan is
\* resolved: the engine runs only after the steps load, login, resolve, in that
\* order. A run whose login failed has resolved no plan and made no negotiation
\* and no apply call, and it is over.
C26_LoginOnceBeforeResolution ==
    /\ CountOf("login", steps) <= 1
    /\ plan \in Plans => steps = << "load_config", "login", "resolve_plan" >>
    /\ plan \notin Plans => NoEngineCall
    /\ FailedAt("login") =>
            /\ steps = << "load_config", "login" >>
            /\ plan = "Unresolved"
            /\ pc = "done"
            /\ NoEngineCall

\* The client rejected the login and the process has exited.
C26_Witness ==
    /\ FailedAt("login")
    /\ Unwrap(Unwrap(runResult).err).kind = "Auth"
    /\ IsSome(exited)

\* C27: --json without --once ends the run in its first step: nothing is loaded,
\* no login, negotiation or apply call is made, run returns an UnsupportedError
\* with exit code 2, and the process prints one JSON record and exits with 2.
C27_JsonRequiresOnce ==
    (json /\ ~once /\ pc # "start") =>
        /\ FailedAt("json")
        /\ Unwrap(Unwrap(runResult).err).kind = "Unsupported"
        /\ Unwrap(runResult).code = 2
        /\ Unwrap(runResult).emit_json
        /\ steps = << >>
        /\ plan = "Unresolved"
        /\ pc = "done"
        /\ NoEngineCall
        /\ (IsSome(exited) => exited = Some([code |-> 2, lines |-> 1]))

\* The process has exited with code 2 after printing the record.
C27_Witness ==
    /\ json
    /\ ~once
    /\ exited = Some([code |-> 2, lines |-> 1])

\* The exit code the type of an error stands for.
CodeOfKind(kind) ==
    IF kind = "Config" THEN 2
    ELSE IF kind \in {"Unsupported", "PcpNotSupported"} THEN 3
    ELSE 1

\* The run succeeded: a single-shot run applied a port, or a daemon was stopped
\* by the cancellation signal.
RunSucceeded ==
    \/ once /\ pc = "done" /\ cycle = "ok" /\ IsSome(update)
    \/ ~once /\ pc = "stopped" /\ cancel

\* C29 as stated: the exit code is 0 iff the run succeeded, and the code of a
\* failed run is given by the type of its error alone.
C29_ExitCodeByErrorType ==
    IsSome(exited) =>
        /\ Unwrap(exited).code = 0 <=> RunSucceeded
        /\ ~RunSucceeded =>
                Unwrap(exited).code = CodeOfKind(Unwrap(Unwrap(runResult).err).kind)

\* C29, amended: the exit code is 0 iff the run succeeded; a run refused for
\* --json without --once or for a base URL that does not parse exits with 2
\* whatever the type of the error; every other failed run exits with the code of
\* the type of its error.
C29_ExitCodes ==
    IsSome(exited) =>
        /\ Unwrap(exited).code = Unwrap(runResult).code
        /\ Unwrap(exited).code = 0 <=> RunSucceeded
        /\ ~RunSucceeded =>
                Unwrap(exited).code =
                    IF Unwrap(runResult).at \in {"json", "base_url"}
                    THEN 2
                    ELSE CodeOfKind(Unwrap(Unwrap(runResult).err).kind)

\* A run whose base URL does not parse has exited with code 2.
C29_Witness ==
    /\ IsSome(exited)
    /\ Unwrap(exited).code = 2
    /\ FailedAt("base_url")
    /\ Unwrap(Unwrap(runResult).err).kind = "Url"

\* The stages of run_once in the order the code goes through them.
Stage(p) ==
    CASE p = "cycle" -> 0
      [] p = "pcp" -> 1
      [] p = "natpmp" -> 2
      [] p = "apply" -> 3
      [] p = "done" -> 4

\* C28: a single-shot run goes forward only, so it acquires a port once (one file
\* read or one run of the chain, each protocol at most once) and applies at most
\* once; the apply call carries the port that was obtained; the run never
\* sleeps, selects or starts a watcher; and it ends, with exactly one outcome.
C28_SingleShotRunsOnce ==
    /\ [][pc' # pc => Stage(pc') > Stage(pc)]_vars
    /\ [](pc \in {"cycle", "pcp", "natpmp", "apply", "done"})
    /\ [](wpc = "off" /\ nextDelay = 0 /\ ~timerFired /\ applyInFlight <= 1 /\ negInFlight <= 1)
    /\ [](pc = "apply" =>
            /\ applyInFlight = 1
            /\ IsSome(applyPort)
            /\ (plan = "File" => file.exists /\ file.port = applyPort)
            /\ (plan \in PortmapModes =>
                    IsSome(map) /\ applyPort = Some(Unwrap(map).external_port)))
    /\ [](applyInFlight = 1 => pc = "apply")
    /\ [](pc = "done" =>
            /\ negInFlight = 0
            /\ applyInFlight = 0
            /\ cycle \in {"ok", "err"}
            /\ (cycle = "ok" <=> IsSome(update))
            /\ (cycle = "err" <=> IsSome(cycleErr))
            /\ (IsSome(update) => IsSome(applyPort)))
    /\ <>[](pc = "done")

\* A single-shot Auto run has ended after PCP failed, NAT-PMP mapped a port and
\* the port was applied.
C28_Witness ==
    /\ once
    /\ plan = "Auto"
    /\ pc = "done"
    /\ cycle = "ok"
    /\ calls = << "pcp", "natpmp" >>
    /\ IsSome(update)

\* The calls of set_listen_port made so far.
Applies == IF IsSome(ret) THEN Unwrap(ret) ELSE << >>

\* C31: when two successive calls request the same port, the client takes the
\* port both times and both calls return a result, then both results are
\* verified and detect the requested port, and the client's listen port is that
\* port after the first call and after the second; whether or not the calls
\* return a result, the listen port is the same after both.
C31_ApplyTwiceIsStable ==
    \A i \in 1..(Len(Applies) - 1) :
        (/\ Applies[i].port = Applies[i + 1].port
         /\ Applies[i].post = "taken"
         /\ Applies[i + 1].post = "taken") =>
            /\ Applies[i].outcome.listen = Applies[i].port
            /\ Applies[i + 1].before = Applies[i].outcome.listen
            /\ Applies[i + 1].outcome.listen = Applies[i].outcome.listen
            /\ (Applies[i].outcome.ok /\ Applies[i + 1].outcome.ok) =>
                    /\ Applies[i].outcome.result.verified
                    /\ Applies[i + 1].outcome.result.verified
                    /\ Applies[i].outcome.result.detected_port = Applies[i].port
                    /\ Applies[i + 1].outcome.result.detected_port = Applies[i].port

\* The same port was applied twice to a client that was on another port, and both
\* calls returned a result.
C31_Witness ==
    /\ Len(Applies) = 2
    /\ Applies[1].port = Applies[2].port
    /\ Applies[1].before # Applies[1].port
    /\ Applies[1].post = "taken"
    /\ Applies[2].post = "taken"
    /\ Applies[1].outcome.ok
    /\ Applies[2].outcome.ok

\* The positions in the request log of a call at which the endpoint was asked.
Asked(r, endpoint) == { j \in DOMAIN r.requests : r.requests[j].endpoint = endpoint }

\* C33: every apply call sends one set-preferences request, carrying the
\* requested listen_port, random_port = false and upnp = false; it sends one
\* get-preferences request, after the set-preferences request, when that request
\* succeeded, and none otherwise; no endpoint is asked twice; a call returns a
\* result only when both requests succeeded, and the result is verified iff the
\* port read back is the port requested.
C33_OneSetThenOneGet ==
    \A i \in DOMAIN Applies :
        LET r == Applies[i] IN
        /\ Cardinality(Asked(r, "setPreferences")) = 1
        /\ \A j \in Asked(r, "setPreferences") :
                /\ r.requests[j].payload.listen_port = r.port
                /\ r.requests[j].payload.random_port = FALSE
                /\ r.requests[j].payload.upnp = FALSE
        /\ Cardinality(Asked(r, "preferences")) = IF r.post \in {"taken", "kept"} THEN 1 ELSE 0
        /\ \A j \in Asked(r, "preferences") : \A k \in Asked(r, "setPreferences") : k < j
        /\ Cardinality(Asked(r, "networkInterfaceList")) <= 1
        /\ r.outcome.ok <=> (r.post \in {"taken", "kept"} /\ r.get = "ok")
        /\ r.outcome.ok =>
                /\ r.outcome.result.detected_port = r.outcome.listen
                /\ r.outcome.result.verified <=> (r.outcome.result.detected_port = r.port)

\* One call whose set-preferences request was answered with an error status, and
\* one whose requests both succeeded on a client that kept its own port.
C33_Witness ==
    /\ Len(Applies) = 2
    /\ Applies[1].post = "status"
    /\ Len(Applies[1].requests) = 1
    /\ Applies[2].post = "kept"
    /\ Applies[2].outcome.ok
    /\ ~Applies[2].outcome.result.verified

\* The process has printed the record of the run.
RecordPrinted == IsSome(exited) /\ Unwrap(exited).lines = 1

\* C32: the record a run prints has the key "error" iff the run failed, the key
\* "detected_port" iff it says applied = true, says applied = true iff the run
\* succeeded and verified = true only with applied = true; the detected port is
\* the one the apply call read back; a key is either written with a value or
\* left out.
C32_RecordMatchesRun ==
    RecordPrinted =>
        LET record == line(Unwrap(runResult).report) IN
        /\ ("error" \in DOMAIN record) <=> ~RunSucceeded
        /\ ("detected_port" \in DOMAIN record) <=> record["applied"]
        /\ record["applied"] <=> RunSucceeded
        /\ record["verified"] => record["applied"]
        /\ record["applied"] =>
                /\ record["detected_port"] = Unwrap(update).detected_port
                /\ record["verified"] = Unwrap(update).verified
        /\ ("detected_port" \in DOMAIN record) <=> IsSome(Unwrap(runResult).report.detected_port)
        /\ ("error" \in DOMAIN record) <=> IsSome(Unwrap(runResult).report.error)

\* A single-shot run printed the record of an applied but unverified port.
C32_Witness ==
    /\ RecordPrinted
    /\ once
    /\ Unwrap(runResult).report.applied
    /\ ~Unwrap(runResult).report.verified
    /\ IsSome(Unwrap(runResult).report.detected_port)

\* C35: a request built from internal port 0 carries the port the generator drew,
\* which lies in 49152..65535, and no external preference; a request built from
\* another internal port carries that port as internal port and as external
\* preference; no built request has internal port 0.
C35_RequestPorts ==
    (Returned("build_request") /\ Unwrap(ret).ok) =>
        LET c == Unwrap(call)
            request == Unwrap(ret).request
        IN  /\ request.internal_port # 0
            /\ c.internal_port = 0 =>
                    /\ request.internal_port = c.drawn
                    /\ request.internal_port >= 49152
                    /\ request.internal_port <= 65535
                    /\ request.external_preference = None
            /\ c.internal_port # 0 =>
                    /\ request.internal_port = c.internal_port
                    /\ request.external_preference = Some(c.internal_port)

\* A request was built from internal port 0.
C35_Witness ==
    /\ Returned("build_request")
    /\ Unwrap(ret).ok
    /\ Unwrap(call).internal_port = 0
    /\ Unwrap(ret).request.internal_port = 51413

Ops(op) == { i \in DOMAIN calls : calls[i].op = op }

\* C34: the exchange sends the request at most once, first; after TRY_AGAIN it
\* sleeps 250 ms and reads again, after another non-mapping response it reads
\* again; it has returned exactly when the request could not be sent or the last
\* response read was a mapping (success) or another error (failure); and it
\* returns, the gateway answering definitively in the end.
C34_NatpmpReadsUntilDefinitive ==
    /\ [](Ops("send") \subseteq {1})
    /\ [](\A i \in Ops("read") :
            /\ i > 1
            /\ calls[i].answer = "tryagain" =>
                    IF i = Len(calls)
                    THEN pc = "backoff"
                    ELSE calls[i + 1] = [op |-> "sleep", ms |-> 250]
            /\ calls[i].answer = "other" =>
                    IF i = Len(calls)
                    THEN pc = "read"
                    ELSE calls[i + 1].op = "read"
            /\ calls[i].answer \in NatpmpDefinitive =>
                    /\ i = Len(calls)
                    /\ pc = "returned"
                    /\ Unwrap(ret).ok <=> (calls[i].answer \in {"mapping_udp", "mapping_tcp"}))
    /\ [](\A i \in Ops("sleep") :
            IF i = Len(calls) THEN pc = "read" ELSE calls[i + 1].op = "read")
    /\ [](pc = "returned" <=> IsSome(ret))
    /\ []((pc = "returned" /\ Ops("read") # {}) =>
            calls[Len(calls)].op = "read" /\ calls[Len(calls)].answer \in NatpmpDefinitive)
    /\ <>[](pc = "returned")

\* The exchange returned a mapping after a TRY_AGAIN and another response.
C34_Witness ==
    /\ pc = "returned"
    /\ IsSome(ret)
    /\ Unwrap(ret).ok
    /\ \E i \in Ops("read") : calls[i].answer = "tryagain"
    /\ \E i \in Ops("read") : calls[i].answer = "other"

\* C36: the lifetime of the NAT-PMP request sent is the configured refresh
\* interval.
C36_LifetimeIsRefresh ==
    \A i \in Ops("send") : u64_from_u32(calls[i].lifetime) = Unwrap(call).refresh_secs

\* The engine is negotiating: building the request or awaiting a protocol attempt.
Negotiating == plan \in PortmapModes /\ pc \in {"cycle", "pcp", "natpmp"}

\* C37: no step of a negotiation changes the client's listen port; an apply call
\* starts from it only with the mapping just obtained; and the step on which the
\* negotiation fails records the error with no apply call in flight and none
\* started, in the daemon and in the single-shot run, in every mode.
C37_FailedNegotiationAppliesNothing ==
    [][Negotiating =>
        /\ listenPort' = listenPort
        /\ applyInFlight = 0
        /\ applyInFlight' # applyInFlight =>
                /\ pc' = "apply"
                /\ IsSome(map')
                /\ applyPort' = Some(Unwrap(map').external_port)
        /\ pc' \notin {"pcp", "natpmp", "apply", pc} =>
                /\ cycle' = "err"
                /\ IsSome(cycleErr')
                /\ map' = None
                /\ applyInFlight' = 0
                /\ applyPort' = applyPort
                /\ pc' = IF once THEN "done" ELSE "sleep"]_vars

\* A daemon cycle failed in negotiation after an earlier cycle had applied a
\* port: the client still listens on that port.
C37_Witness ==
    /\ ~once
    /\ plan \in PortmapModes
    /\ pc = "sleep"
    /\ cycle = "err"
    /\ natRes = "err"
    /\ map = None
    /\ applyInFlight = 0
    /\ listenPort # 6881
    /\ applyPort = Some(listenPort)

\* C39: once the watcher task of the file daemon has ended with an error, no step
\* changes the health flag, starts an apply call or touches the client's port;
\* the daemon loop waits in its select and leaves it only on the cancellation
\* signal, which does end it.
C39_DeadWatcherLeavesLoopWaiting ==
    /\ [][wpc = "ended" =>
            /\ wpc' = "ended"
            /\ pc \in {"select", "stopped"}
            /\ health' = health
            /\ applyInFlight' = applyInFlight
            /\ applyInFlight = 0
            /\ applyPort' = applyPort
            /\ listenPort' = listenPort
            /\ pc' # pc => (cancel /\ pc' = "stopped")]_vars
    /\ [](wpc = "ended" => (pc = "stopped" => cancel))
    /\ (wpc = "ended" /\ cancel) ~> (pc = "stopped")

\* The watcher ended with an error, the file was written afterwards without any
\* apply, and the daemon stopped on the cancellation signal.
C39_Witness ==
    /\ wpc = "ended"
    /\ writes > 0
    /\ emitted = << >>
    /\ applyPort = None
    /\ health = FALSE
    /\ cancel
    /\ pc = "stopped"

\* The last n elements of a sequence.
Suffix(q, n) == SubSeq(q, Len(q) - n + 1, Len(q))

\* C38: no port the watcher emitted is lost before the apply loop: the channel
\* always holds the latest emissions, in emission order, so the loop, which takes
\* from its head, is handed every emitted port in order.
C38_NoEmittedPortLost ==
    /\ Len(chan) <= Len(emitted)
    /\ chan = Suffix(emitted, Len(chan))
====
